---------------------------- MODULE Spec2Model ----------------------------
(***************************************************************************)
(* A model of the oxide-alloy emulator core: the Motorola 68000 engine     *)
(* (crates/oxid68k) driving a MacBus (crates/systems/oxid_mac), the Zilog  *)
(* Z80 engine (crates/oxidz80), and the Master System bus and VDP          *)
(* (crates/systems/oxid_master).                                           *)
(*                                                                         *)
(* TLC's integers are 32-bit signed, so a 68k long is modelled as a pair   *)
(* <<hi, lo>> of 16-bit words; all arithmetic on longs wraps modulo 2^32   *)
(* exactly as the u32 `wrapping_*` calls of the source do.                 *)
(***************************************************************************)
EXTENDS Integers, Sequences, FiniteSets, TLC

VARIABLES
    cpu,        \* the Oxid68k struct
    bus,        \* the MacBus the 68k is stepped against
    panicked,   \* TRUE once a host call has panicked (the process aborted)
    overflow_checks, \* the build: TRUE when integer overflow panics (debug)
    last,       \* history: what the last host call on the 68k did
    z80,        \* the OxidZ80 struct
    zmem,       \* the Z80's bus: 64 KiB of RAM (sparse, default 0)
    zlast,      \* history: what the last host call on the Z80 did
    sms,        \* the MasterSystemBus struct, its Vdp included
    slast       \* history: what the last access to the Master System bus did

vars68 == <<cpu, bus, panicked, overflow_checks, last>>
varsZ  == <<z80, zmem, zlast>>
varsM  == <<sms, slast>>
vars   == <<cpu, bus, panicked, overflow_checks, last, z80, zmem, zlast, sms, slast>>

---------------------------------------------------------------------------
(* Fixed-width arithmetic.                                                 *)

Byte == 0..255
Word == 0..65535

RECURSIVE BitAnd(_, _)
BitAnd(x, y) ==
    IF x = 0 \/ y = 0 THEN 0
    ELSE (x % 2) * (y % 2) + 2 * BitAnd(x \div 2, y \div 2)

RECURSIVE BitOr(_, _)
BitOr(x, y) ==
    IF x = 0 THEN y
    ELSE IF y = 0 THEN x
    ELSE (IF x % 2 = 1 \/ y % 2 = 1 THEN 1 ELSE 0) + 2 * BitOr(x \div 2, y \div 2)

RECURSIVE BitXor(_, _)
BitXor(x, y) ==
    IF x = 0 THEN y
    ELSE IF y = 0 THEN x
    ELSE ((x + y) % 2) + 2 * BitXor(x \div 2, y \div 2)

\* bit k of x set
Bit(x, k) == (x \div (2 ^ k)) % 2 = 1

\* A u32 as <<high word, low word>>; L(n) for 0 <= n < 2^31.
L(n) == <<(n \div 65536) % 65536, n % 65536>>
Hi(a) == a[1]
Lo(a) == a[2]

\* u32::wrapping_add / wrapping_sub
AddL(a, b) ==
    LET lo == a[2] + b[2]
        hi == a[1] + b[1] + (lo \div 65536)
    IN  <<hi % 65536, lo % 65536>>
SubL(a, b) ==
    LET lo == a[2] - b[2]
        hi == a[1] - b[1] + (lo \div 65536)
    IN  <<hi % 65536, lo % 65536>>
LtL(a, b) == a[1] < b[1] \/ (a[1] = b[1] /\ a[2] < b[2])
GtL(a, b) == LtL(b, a)

\* (w as i16) as i32 as u32
SextW(w) == <<IF w >= 32768 THEN 65535 ELSE 0, w>>
\* (b as i8) as i32, as a signed integer
SByte(b) == IF b >= 128 THEN b - 256 ELSE b
\* (w as i16) as i32, as a signed integer
SWord(w) == IF w >= 32768 THEN w - 65536 ELSE w

\* Option<T>
None == <<>>
Some(v) == <<v>>
IsSome(o) == o # <<>>
Unwrap(o) == o[1]

---------------------------------------------------------------------------
(* MacRam *)

\* detect_model: a ROM of at most 64 KiB selects the 512 KiB machine.
RamSize == 512 * 1024

\* MacRam::new: mirroring is on when the RAM is smaller than 1 MiB.
enable_mirroring == RamSize < 1024 * 1024

\* MacRam::read.  The vector is zero-filled at construction, so the model keeps
\* only the non-zero bytes; out of range the RAM mirrors (addr % size) or
\* reads open bus.  RamSize is a multiple of 64 KiB.
RamIndex(a) == ((a[1] % (RamSize \div 65536)) * 65536) + a[2]
InRam(a) == a[1] < RamSize \div 65536
ram_read(ram, a) ==
    IF InRam(a) \/ enable_mirroring
    THEN (IF RamIndex(a) \in DOMAIN ram THEN ram[RamIndex(a)] ELSE 0)
    ELSE 255

\* MacRam::write
ram_write(ram, a, v) ==
    IF InRam(a) \/ enable_mirroring
    THEN [k \in IF v = 0 THEN (DOMAIN ram) \ {RamIndex(a)}
                         ELSE (DOMAIN ram) \cup {RamIndex(a)} |->
             IF k = RamIndex(a) THEN v ELSE ram[k]]
    ELSE ram

---------------------------------------------------------------------------
(* The ROM images the model boots.  Every image holds the 48 exception      *)
(* vectors at 0x000..0x0BF, one two-word handler per vector at              *)
(* 0x100 + 4 * vector (NOP; RTE -- for vector 2, the 14-byte bus-error      *)
(* frame: ADDQ.L #8,A7; RTE -- for vector 35, TRAP #3: STOP #$2700, the end *)
(* of the program), and a program at 0x1C0.                                 *)

VectorWords ==
    [w \in 1..96 |-> IF (w - 1) % 2 = 0 THEN 0 ELSE 256 + (4 * ((w - 1) \div 2))]
PadWords == [w \in 1..32 |-> 0]
HandlerWords ==
    [w \in 1..96 |->
        CASE (w - 1) \div 2 = 2  -> IF (w - 1) % 2 = 0 THEN 20623 ELSE 20083  \* ADDQ.L #8,A7; RTE
          [] (w - 1) \div 2 = 35 -> IF (w - 1) % 2 = 0 THEN 20082 ELSE 9984   \* STOP #$2700
          [] OTHER               -> IF (w - 1) % 2 = 0 THEN 20081 ELSE 20083] \* NOP; RTE
ImageBase == VectorWords \o PadWords \o HandlerWords

\* interrupts, traps and the user/supervisor switch
Program1 ==
    << 8316, 0, 36864,      \* 1C0  MOVEA.L #$00009000,A0
       20064,               \* 1C6  MOVE A0,USP
       20082, 42240,        \* 1C8  STOP #$A500         (wait: T set, mask 5)
       18172, 34048,        \* 1CC  MOVE #$8500,SR      (to user mode: T set, mask 5)
       20032,               \* 1D0  TRAP #0
       24836,               \* 1D2  BSR.S $1D8
       20047,               \* 1D4  TRAP #15
       20035,               \* 1D6  TRAP #3             (the end)
       20085 >>             \* 1D8  RTS

\* arithmetic edge cases, in supervisor mode
Program2 ==
    << 29439,               \* 1C0  MOVEQ #-1,D1
       29951,               \* 1C2  MOVEQ #-1,D2
       60, 16,              \* 1C4  ORI #$10,CCR        (set X)
       54657,               \* 1C8  ADDX.L D1,D2
       8252, 32768, 0,      \* 1CA  MOVE.L #$80000000,D0
       33276, 0,            \* 1D0  DIVS #0,D0          (vector 5)
       33276, 2,            \* 1D4  DIVS #2,D0          (quotient overflows)
       33020, 3,            \* 1D8  DIVU #3,D0          (quotient overflows)
       28679,               \* 1DC  MOVEQ #7,D0
       33276, 65534,        \* 1DE  DIVS #-2,D0
       60, 16,              \* 1E2  ORI #$10,CCR        (set X)
       38273,               \* 1E6  SUBX.L D1,D2
       8252, 32768, 0,      \* 1E8  MOVE.L #$80000000,D0
       33276, 65535,        \* 1EE  DIVS #-1,D0
       20035 >>             \* 1F2  TRAP #3             (the end)

\* bus faults, from supervisor and from user mode
Program3 ==
    << 19001, 96, 0,        \* 1C0  TST.B $00600000     (unmapped: read fault)
       8316, 0, 36864,      \* 1C6  MOVEA.L #$00009000,A0
       20064,               \* 1CC  MOVE A0,USP
       18172, 1536,         \* 1CE  MOVE #$0600,SR      (to user mode, mask 6)
       19001, 96, 0,        \* 1D2  TST.B $00600000
       5056, 64, 0,         \* 1D8  MOVE.B D0,$00400000 (ROM: write fault)
       20068,               \* 1DE  MOVE A4,USP         (privileged: vector 8)
       20035 >>             \* 1E0  TRAP #3             (the end)

\* a supervisor stack in the ROM window: the frame writes fault
Program4 ==
    << 11900, 64, 16,       \* 1C0  MOVEA.L #$00400010,A7
       20033,               \* 1C6  TRAP #1
       20035 >>             \* 1C8  TRAP #3             (the end)

\* nothing but the end: booted with several reset vectors
Program5 ==
    << 20035 >>             \* 1C0  TRAP #3             (the end)

\* the privileged instructions, in user mode.  Each immediate operand is
\* $4E71, so that the word the handler returns to is a NOP.
Program6 ==
    << 8316, 0, 36864,      \* 1C0  MOVEA.L #$00009000,A0
       20064,               \* 1C6  MOVE A0,USP
       18172, 1536,         \* 1C8  MOVE #$0600,SR      (to user mode, mask 6)
       124, 20081,          \* 1CC  ORI #$4E71,SR
       636, 20081,          \* 1D0  ANDI #$4E71,SR
       2684, 20081,         \* 1D4  EORI #$4E71,SR
       18172, 20081,        \* 1D8  MOVE #$4E71,SR
       18136,               \* 1DC  MOVE (A0)+,SR
       20082, 20081,        \* 1DE  STOP #$4E71
       20083,               \* 1E2  RTE
       20067,               \* 1E4  MOVE A3,USP
       20073,               \* 1E6  MOVE USP,A1
       20035 >>             \* 1E8  TRAP #3             (the end)

\* read-modify-write on memory, JSR, EXT.L
Program7 ==
    << 8316, 0, 36864,      \* 1C0  MOVEA.L #$00009000,A0
       21080,               \* 1C6  ADDQ.W #1,(A0)+
       21344,               \* 1C8  SUBQ.W #1,-(A0)
       21096, 4,            \* 1CA  ADDQ.W #1,4(A0)
       20081,               \* 1CE  NOP
       20112,               \* 1D0  JSR (A0)
       12348, 32768,        \* 1D2  MOVE.W #$8000,D0
       18624,               \* 1D6  EXT.L D0
       20081,               \* 1D8  NOP
       20035 >>             \* 1DA  TRAP #3             (the end)

\* ILLEGAL, EXT.W
Program8 ==
    << 8252, 4660, 128,     \* 1C0  MOVE.L #$12340080,D0
       19196,               \* 1C6  ILLEGAL
       20081,               \* 1C8  NOP
       18560,               \* 1CA  EXT.W D0
       20081,               \* 1CC  NOP
       20035 >>             \* 1CE  TRAP #3             (the end)

Image1 == ImageBase \o Program1
Image2 == ImageBase \o Program2
Image3 == ImageBase \o Program3
Image4 == ImageBase \o Program4
Image5 == ImageBase \o Program5
Image6 == ImageBase \o Program6
Image7 == ImageBase \o Program7
Image8 == ImageBase \o Program8

ImageWords(i) ==
    CASE i = 1 -> Image1 [] i = 2 -> Image2 [] i = 3 -> Image3 [] i = 4 -> Image4
      [] i = 5 -> Image5 [] i = 6 -> Image6
      [] i = 7 -> Image7 [] i = 8 -> Image8

\* Programs with operands: rom.arg holds the operands the program is
\* assembled with.

\* OR.B D1,<ea> on the byte at $9000: arg = <<x, y, mode>>, x in D1, y in
\* memory, mode the addressing mode of the destination, register A0
ProgramOrB(arg) ==
    << 8316, 0, 36864,      \* 1C0  MOVEA.L #$00009000,A0
       4284, arg[2],        \* 1C6  MOVE.B #y,(A0)
       28704,               \* 1CA  MOVEQ #$20,D0
       29184 + arg[1],      \* 1CC  MOVEQ #x,D1
       33536 + (8 * arg[3]),\* 1CE  OR.B D1,<ea>
       20035 >>             \* 1D0  TRAP #3             (the end)

\* a loop closed by DBF: arg = <<k>>, the counter; D1 counts the passes
ProgramDbf(arg) ==
    << 8252, 4660, arg[1],  \* 1C0  MOVE.L #$1234kkkk,D0
       29184,               \* 1C6  MOVEQ #0,D1
       21121,               \* 1C8  ADDQ.L #1,D1
       20936, 65532,        \* 1CA  DBF D0,$1C8
       20035 >>             \* 1CE  TRAP #3             (the end)

\* a chain of two ABCD or two SBCD: arg = <<d0, s0, d1, s1, x, sub>>; the low
\* bytes are d0 (D1) and s0 (D0), the high bytes d1 (D3) and s1 (D2); the
\* chain starts with Z set and X = x
ProgramBcd(arg) ==
    << 4156, arg[2],        \* 1C0  MOVE.B #s0,D0
       4668, arg[1],        \* 1C4  MOVE.B #d0,D1
       5180, arg[4],        \* 1C8  MOVE.B #s1,D2
       5692, arg[3],        \* 1CC  MOVE.B #d1,D3
       17660, 4 + (16 * arg[5]),                    \* 1D0  MOVE #ccr,CCR
       IF arg[6] = 1 THEN 33536 ELSE 49920,         \* 1D4  SBCD / ABCD D0,D1
       IF arg[6] = 1 THEN 34562 ELSE 50946,         \* 1D6  SBCD / ABCD D2,D3
       20035 >>             \* 1D8  TRAP #3             (the end)

\* the image of a ROM
RomImage(rom) ==
    CASE rom.img <= 8 -> ImageWords(rom.img)
      [] rom.img = 9 -> ImageBase \o ProgramOrB(rom.arg)
      [] rom.img = 10 -> ImageBase \o ProgramDbf(rom.arg)
      [] rom.img = 11 -> ImageBase \o ProgramBcd(rom.arg)

---------------------------------------------------------------------------
(* MacBus *)

\* (address >> 20) & 0xF
HighNibble(a) == (a[1] \div 16) % 16

\* rom[offset].  bus.rom names the ROM the host loaded and bus.words is its
\* content: a program image (big-endian words) whose reset vectors, the longs
\* at 0 and 4, are rom.ssp and rom.pcv.
RomLen(b) == 2 * Len(b.words)
RomWord(b, k) ==
    CASE k = 0 -> b.rom.ssp[1]
      [] k = 1 -> b.rom.ssp[2]
      [] k = 2 -> b.rom.pcv[1]
      [] k = 3 -> b.rom.pcv[2]
      [] OTHER -> b.words[k + 1]
RomByte(b, off) ==
    LET w == RomWord(b, off \div 2)
    IN  IF off % 2 = 0 THEN w \div 256 ELSE w % 256

\* MacBus::read(&self): the value read and the fault latch after the read
\* (fault_addr is a Cell, so a read can set it).
\* The VIA registers are not modelled: a VIA read gives 0.
read(b, a) ==
    LET len  == RomLen(b)
        high == HighNibble(a)
        flt  == [v |-> 255, b |-> [b EXCEPT !.fault_addr = Some(a)]]
        ok(v) == [v |-> v, b |-> b]
    IN  IF b.rom_overlay /\ a[1] = 0 /\ a[2] < len
        THEN ok(RomByte(b, a[2]))
        ELSE CASE high \in 0..3 -> ok(ram_read(b.ram, a))
               [] high = 4 -> ok(RomByte(b, (((a[1] % 16) * 65536) + a[2]) % len))
               [] high = 5 -> IF a[1] >= 88 THEN ok(0) ELSE flt
               [] high \in 6..8 -> flt
               [] high \in 9..11 -> ok(4)
               [] high \in 12..13 -> ok(31)
               [] high = 14 -> IF a[1] >= 232 THEN ok(0) ELSE flt
               [] high = 15 -> ok(0)

\* MacBus::write.  The VIA registers are not modelled: a VIA write is dropped.
write(b, a, v) ==
    LET high == HighNibble(a)
        flt  == [b EXCEPT !.fault_addr = Some(a)]
    IN  CASE high \in 0..3 ->
               [b EXCEPT !.ram = ram_write(b.ram, a, v),
                         !.rom_overlay = IF b.rom_overlay /\ a[1] = 0 /\ a[2] < 32768
                                         THEN FALSE ELSE b.rom_overlay]
          [] high = 4 -> flt
          [] high = 5 -> IF a[1] < 88 THEN flt ELSE b
          [] high \in 9..11 -> b
          [] high \in 12..13 -> b
          [] high = 14 -> IF a[1] >= 232 THEN b ELSE flt
          [] high = 15 -> b
          [] OTHER -> flt

\* MacBus::bus_error / ack_bus_error
bus_error(b) == b.fault_addr
ack_bus_error(b) == [b EXCEPT !.fault_addr = None]

\* MacBus::new
NewBus(rom_data) ==
    [ram |-> <<>>, rom |-> rom_data, words |-> RomImage(rom_data),
     rom_overlay |-> TRUE, fault_addr |-> None]

---------------------------------------------------------------------------
(* Oxid68k: the status register *)

\* StatusRegister::new
NewSR ==
    [trace |-> FALSE, supervisor |-> TRUE, int_mask |-> 7, extend |-> FALSE,
     negative |-> FALSE, zero |-> FALSE, overflow |-> FALSE, carry |-> FALSE]

\* StatusRegister::to_u16
to_u16(sr) ==
      (IF sr.carry THEN 1 ELSE 0)
    + (IF sr.overflow THEN 2 ELSE 0)
    + (IF sr.zero THEN 4 ELSE 0)
    + (IF sr.negative THEN 8 ELSE 0)
    + (IF sr.extend THEN 16 ELSE 0)
    + ((sr.int_mask % 8) * 256)
    + (IF sr.supervisor THEN 8192 ELSE 0)
    + (IF sr.trace THEN 32768 ELSE 0)

\* StatusRegister::from_u16
from_u16(v) ==
    [carry |-> Bit(v, 0), overflow |-> Bit(v, 1), zero |-> Bit(v, 2),
     negative |-> Bit(v, 3), extend |-> Bit(v, 4), int_mask |-> (v \div 256) % 8,
     supervisor |-> Bit(v, 13), trace |-> Bit(v, 15)]

\* Size::mask / Size::msb / Size::bytes, a size being 1, 2 or 4 (its byte count)
SzByte == 1
SzWord == 2
SzLong == 4
MaskL(sz) == CASE sz = 1 -> <<0, 255>> [] sz = 2 -> <<0, 65535>> [] sz = 4 -> <<65535, 65535>>
\* v & s.mask()
Masked(v, sz) == CASE sz = 1 -> <<0, v[2] % 256>> [] sz = 2 -> <<0, v[2]>> [] sz = 4 -> v
\* (v & s.msb()) != 0
MsbSet(v, sz) == CASE sz = 1 -> Bit(v[2], 7) [] sz = 2 -> Bit(v[2], 15) [] sz = 4 -> Bit(v[1], 15)

\* StatusRegister::set_nz
set_nz(sr, v, sz) ==
    [sr EXCEPT !.zero = (Masked(v, sz) = <<0, 0>>), !.negative = MsbSet(v, sz)]

\* StatusRegister::set_logic
set_logic(sr, v, sz) ==
    [set_nz(sr, v, sz) EXCEPT !.overflow = FALSE, !.carry = FALSE]

---------------------------------------------------------------------------
(* Oxid68k: construction, bus access, stack and exceptions.  A "machine" m  *)
(* is what a host call works on: [c |-> the cpu, b |-> the bus, p |-> how   *)
(* far the call got: "run", "panic" (the thread panicked) or "unmodelled"   *)
(* (the opcode is outside the instructions this model covers)].             *)

\* A machine in the middle of a call: the CPU, the bus, how the call is going
\* ("run", "panic", "unmodelled") and x, the log of the exception frames the
\* call has pushed so far
Mach(c, b) == [c |-> c, b |-> b, p |-> "run", x |-> <<>>]

\* Oxid68k::new
NewCpu ==
    [d |-> [i \in 0..7 |-> <<0, 0>>], a |-> [i \in 0..7 |-> <<0, 0>>],
     pc |-> <<0, 0>>, sr |-> NewSR, usp |-> <<0, 0>>, ssp |-> <<0, 0>>,
     halted |-> FALSE, stopped |-> FALSE, cycles |-> 0, pending_int |-> None]

\* With(v, Op): Op applied to v -- "let x = v; ..." of the source
With(v, Op(_)) == Op(v)

\* MemoryBus::read_u32_be (default method): [v |-> the long, b |-> bus after]
read_u32_be(b, a) ==
    With(read(b, a), LAMBDA b0 :
    With(read(b0.b, AddL(a, <<0, 1>>)), LAMBDA b1 :
    With(read(b1.b, AddL(a, <<0, 2>>)), LAMBDA b2 :
    With(read(b2.b, AddL(a, <<0, 3>>)), LAMBDA b3 :
        [v |-> <<(b0.v * 256) + b1.v, (b2.v * 256) + b3.v>>, b |-> b3.b]))))

\* write_u32_be storing the least significant byte first
write_u32_be_LittleEndian(b, a, val) ==
    write(write(write(write(b, a, val[2] % 256),
                      AddL(a, <<0, 1>>), val[2] \div 256),
                AddL(a, <<0, 2>>), val[1] % 256),
          AddL(a, <<0, 3>>), val[1] \div 256)

\* MemoryBus::write_u32_be (default method): the bus after
write_u32_be(b, a, val) ==
    write(write(write(write(b, a, val[1] \div 256),
                      AddL(a, <<0, 1>>), val[1] % 256),
                AddL(a, <<0, 2>>), val[2] \div 256),
          AddL(a, <<0, 3>>), val[2] % 256)

\* read_byte / read_word / read_long: [m |-> machine after, v |-> value]
read_byte(m, a) ==
    With(read(m.b, a), LAMBDA r : [m |-> [m EXCEPT !.b = r.b], v |-> r.v])
read_word(m, a) ==
    With(read_byte(m, a), LAMBDA h :
    With(read_byte(h.m, AddL(a, <<0, 1>>)), LAMBDA l :
        [m |-> l.m, v |-> (h.v * 256) + l.v]))
read_long(m, a) ==
    With(read_word(m, a), LAMBDA h :
    With(read_word(h.m, AddL(a, <<0, 2>>)), LAMBDA l :
        [m |-> l.m, v |-> <<h.v, l.v>>]))

\* write_byte / write_word / write_long: the machine after
write_byte(m, a, v) == [m EXCEPT !.b = write(m.b, a, v)]
write_word(m, a, v) ==
    write_byte(write_byte(m, a, v \div 256), AddL(a, <<0, 1>>), v % 256)
write_long(m, a, v) ==
    write_word(write_word(m, a, v[1]), AddL(a, <<0, 2>>), v[2])

\* read_sz / write_sz (values are longs)
LongOf(r) == [m |-> r.m, v |-> <<0, r.v>>]
read_sz(m, a, sz) ==
    CASE sz = 1 -> LongOf(read_byte(m, a))
      [] sz = 2 -> LongOf(read_word(m, a))
      [] sz = 4 -> read_long(m, a)
write_sz(m, a, v, sz) ==
    CASE sz = 1 -> write_byte(m, a, v[2] % 256)
      [] sz = 2 -> write_word(m, a, v[2])
      [] sz = 4 -> write_long(m, a, v)

\* fetch / fetch_long
fetch(m) ==
    With(read_word(m, m.c.pc), LAMBDA r :
        [m |-> [r.m EXCEPT !.c.pc = AddL(m.c.pc, <<0, 2>>)], v |-> r.v])
fetch_long(m) ==
    With(fetch(m), LAMBDA h :
    With(fetch(h.m), LAMBDA l :
        [m |-> l.m, v |-> <<h.v, l.v>>]))

\* set_d
set_d(c, r, v, sz) ==
    CASE sz = 1 -> [c EXCEPT !.d[r] = <<c.d[r][1], ((c.d[r][2] \div 256) * 256) + (v[2] % 256)>>]
      [] sz = 2 -> [c EXCEPT !.d[r] = <<c.d[r][1], v[2]>>]
      [] sz = 4 -> [c EXCEPT !.d[r] = v]

\* set_sr: load SR and swap A7 with the shadow of the mode entered
SwapStack(old, c1) ==
    IF old # c1.sr.supervisor
    THEN IF c1.sr.supervisor
         THEN [c1 EXCEPT !.usp = c1.a[7], !.a[7] = c1.ssp]
         ELSE [c1 EXCEPT !.ssp = c1.a[7], !.a[7] = c1.usp]
    ELSE c1
set_sr(c, v) == SwapStack(c.sr.supervisor, [c EXCEPT !.sr = from_u16(v)])

\* set_ccr
set_ccr(c, v) ==
    [c EXCEPT !.sr.carry = Bit(v, 0), !.sr.overflow = Bit(v, 1), !.sr.zero = Bit(v, 2),
              !.sr.negative = Bit(v, 3), !.sr.extend = Bit(v, 4)]

\* the switch to the supervisor stack that exception, exception_bus_error and
\* process_int each open with: USP <- A7, A7 <- SSP, S <- 1 when in user mode
EnterSupervisor(c) ==
    IF ~c.sr.supervisor
    THEN [c EXCEPT !.usp = c.a[7], !.a[7] = c.ssp, !.sr.supervisor = TRUE]
    ELSE c

\* a7 = a7.wrapping_sub(4); write_long(a7, v)
PushLong(m, v) ==
    With(SubL(m.c.a[7], <<0, 4>>), LAMBDA sp :
        write_long([m EXCEPT !.c.a[7] = sp], sp, v))
\* a7 = a7.wrapping_sub(2); write_word(a7, v)
PushWord(m, v) ==
    With(SubL(m.c.a[7], <<0, 2>>), LAMBDA sp :
        write_word([m EXCEPT !.c.a[7] = sp], sp, v))

\* pc = read_long(addr); cycles += n
LoadVector(m, addr, n) ==
    With(read_long(m, addr), LAMBDA v :
        [v.m EXCEPT !.c.pc = v.v, !.c.cycles = v.m.c.cycles + n])

\* the log entry of a frame: m1 the machine on the supervisor stack before
\* the pushes, m2 after them
Framed(m1, m2, kind, vec) ==
    [m2 EXCEPT !.x = Append(m2.x, [kind |-> kind, vec |-> vec,
                                   from |-> m1.c.a[7], to |-> m2.c.a[7]])]

\* exception with the two pushes in the opposite order: SR first, PC on top
exception_PushesSrFirst(m, vec) ==
    With([m EXCEPT !.c = [EnterSupervisor(m.c) EXCEPT !.sr.trace = FALSE]], LAMBDA m1 :
        LoadVector(Framed(m1, PushLong(PushWord(m1, to_u16(m.c.sr)), m1.c.pc),
                          "exception", vec),
                   L(vec * 4), 34))

\* exception(vec): the 6-byte frame
exception(m, vec) ==
    With([m EXCEPT !.c = [EnterSupervisor(m.c) EXCEPT !.sr.trace = FALSE]], LAMBDA m1 :
        LoadVector(Framed(m1, PushWord(PushLong(m1, m1.c.pc), to_u16(m.c.sr)),
                          "exception", vec),
                   L(vec * 4), 34))

\* exception_bus_error without the function-code word: a 12-byte frame
exception_bus_error_NoFunctionCode(m, fault_addr, ir) ==
    With([m EXCEPT !.c = [EnterSupervisor(m.c) EXCEPT !.sr.trace = FALSE]], LAMBDA m1 :
        LoadVector(
            Framed(m1,
                   PushLong(PushWord(PushWord(PushLong(m1, m1.c.pc), to_u16(m.c.sr)),
                                     ir), fault_addr),
                   "bus_error", 2),
            <<0, 8>>, 50))

\* exception_bus_error(fault_addr, ir): the 14-byte group-0 frame
exception_bus_error(m, fault_addr, ir) ==
    With([m EXCEPT !.c = [EnterSupervisor(m.c) EXCEPT !.sr.trace = FALSE]], LAMBDA m1 :
        LoadVector(
            Framed(m1,
                   PushWord(PushLong(PushWord(PushWord(PushLong(m1, m1.c.pc),
                                                       to_u16(m.c.sr)),
                                              ir), fault_addr), 5),
                   "bus_error", 2),
            <<0, 8>>, 50))

\* trigger_interrupt that latches the level and leaves the CPU stopped
trigger_interrupt_KeepsStopped(c, lv) ==
    IF lv > c.sr.int_mask
    THEN [c EXCEPT !.pending_int = Some(lv)]
    ELSE c

\* trigger_interrupt that latches every level, whatever the mask
trigger_interrupt_LatchesAlways(c, lv) ==
    [c EXCEPT !.pending_int = Some(lv), !.stopped = FALSE]

\* trigger_interrupt(lv)
trigger_interrupt(c, lv) ==
    IF lv > c.sr.int_mask
    THEN [c EXCEPT !.pending_int = Some(lv), !.stopped = FALSE]
    ELSE c

\* process_int saving the SR it has already changed instead of old_sr
ServiceInt_SavesNewSr(m0, lv) ==
    IF lv > m0.c.sr.int_mask
    THEN With([m0 EXCEPT !.c = [EnterSupervisor(m0.c) EXCEPT
                                   !.sr.trace = FALSE, !.sr.int_mask = lv]], LAMBDA m1 :
            LoadVector(Framed(m1, PushWord(PushLong(m1, m1.c.pc), to_u16(m1.c.sr)),
                              "interrupt", 24 + lv),
                       L((24 + lv) * 4), 44))
    ELSE m0

\* process_int: the body of the outer "if let", lv taken from pending_int
ServiceInt(m0, lv) ==
    IF lv > m0.c.sr.int_mask
    THEN With([m0 EXCEPT !.c = [EnterSupervisor(m0.c) EXCEPT
                                   !.sr.trace = FALSE, !.sr.int_mask = lv]], LAMBDA m1 :
            LoadVector(Framed(m1, PushWord(PushLong(m1, m1.c.pc), to_u16(m0.c.sr)),
                              "interrupt", 24 + lv),
                       L((24 + lv) * 4), 44))
    ELSE m0
process_int(m) ==
    IF IsSome(m.c.pending_int)
    THEN ServiceInt([m EXCEPT !.c.pending_int = None], Unwrap(m.c.pending_int))
    ELSE m

\* reset_with_bus
reset_with_bus(m) ==
    With(read_long(m, <<0, 0>>), LAMBDA raw :
    With(IF GtL(raw.v, <<16, 0>>) THEN <<8, 0>> ELSE raw.v, LAMBDA sp :
    With(read_long([raw.m EXCEPT !.c.ssp = sp, !.c.a[7] = sp], <<0, 4>>), LAMBDA p :
        [p.m EXCEPT !.c.pc = p.v, !.c.sr = NewSR, !.c.halted = FALSE,
                    !.c.stopped = FALSE])))

---------------------------------------------------------------------------
(* Oxid68k: the effective-address engine *)

\* (b as i8) as i32 as u32
SextB(b) == IF b >= 128 THEN <<65535, 65280 + b>> ELSE <<0, b>>

\* the step of (An)+ and -(An): 2 for a byte through A7, else the size
EaStep(r, sz) == IF r = 7 /\ sz = 1 THEN <<0, 2>> ELSE <<0, sz>>

\* calc_idx(base): (d8, base, Xn)
IdxReg(c, ext) ==
    IF Bit(ext, 15) THEN c.a[(ext \div 4096) % 8] ELSE c.d[(ext \div 4096) % 8]
calc_idx(m, base) ==
    With(fetch(m), LAMBDA e :
    With(IdxReg(e.m.c, e.v), LAMBDA idx0 :
        [m |-> e.m,
         v |-> AddL(AddL(base, IF Bit(e.v, 11) THEN idx0 ELSE SextW(idx0[2])),
                    SextB(e.v % 256))]))

\* imm(s), also the #imm arm of read_ea
LowByte(f) == [m |-> f.m, v |-> <<0, f.v % 256>>]
imm(m, sz) ==
    CASE sz = 1 -> LowByte(fetch(m))
      [] sz = 2 -> LongOf(fetch(m))
      [] sz = 4 -> fetch_long(m)

\* the address of a mode that has one: [m |-> machine after, v |-> address].
\* (An)+ and -(An) step the register, as read_ea and write_ea do.
EaAddr(m, mode, r, sz) ==
    CASE mode = 2 -> [m |-> m, v |-> m.c.a[r]]
      [] mode = 3 -> [m |-> [m EXCEPT !.c.a[r] = AddL(m.c.a[r], EaStep(r, sz))],
                      v |-> m.c.a[r]]
      [] mode = 4 -> [m |-> [m EXCEPT !.c.a[r] = SubL(m.c.a[r], EaStep(r, sz))],
                      v |-> SubL(m.c.a[r], EaStep(r, sz))]
      [] mode = 5 ->
            With(fetch(m), LAMBDA f : [m |-> f.m, v |-> AddL(f.m.c.a[r], SextW(f.v))])
      [] mode = 6 -> calc_idx(m, m.c.a[r])
      [] mode = 7 /\ r = 0 -> With(fetch(m), LAMBDA f : [m |-> f.m, v |-> SextW(f.v)])
      [] mode = 7 /\ r = 1 -> fetch_long(m)
      [] mode = 7 /\ r = 2 ->
            With(fetch(m), LAMBDA f : [m |-> f.m, v |-> AddL(m.c.pc, SextW(f.v))])
      [] mode = 7 /\ r = 3 -> calc_idx(m, m.c.pc)

\* read_ea(mode, reg, size): [m |-> machine after, v |-> operand]
read_ea(m, mode, r, sz) ==
    CASE mode = 0 -> [m |-> m, v |-> Masked(m.c.d[r], sz)]
      [] mode = 1 -> [m |-> m, v |-> m.c.a[r]]
      [] mode = 7 /\ r = 4 -> imm(m, sz)
      [] mode \in 2..6 \/ (mode = 7 /\ r \in 0..3) ->
            With(EaAddr(m, mode, r, sz), LAMBDA ea : read_sz(ea.m, ea.v, sz))
      [] OTHER -> [m |-> m, v |-> <<0, 0>>]

\* write_ea(mode, reg, size, value): the machine after
write_ea(m, mode, r, sz, v) ==
    CASE mode = 0 -> [m EXCEPT !.c = set_d(m.c, r, v, sz)]
      [] mode = 1 -> [m EXCEPT !.c.a[r] = IF sz = 2 THEN SextW(v[2]) ELSE v]
      [] mode \in 2..6 \/ (mode = 7 /\ r \in 0..1) ->
            With(EaAddr(m, mode, r, sz), LAMBDA ea : write_sz(ea.m, ea.v, v, sz))
      [] OTHER -> m

\* calc_ea(mode, reg): [m |-> machine after, v |-> address]
calc_ea(m, mode, r) ==
    CASE mode \in {2, 3, 4} -> [m |-> m, v |-> m.c.a[r]]
      [] mode \in 5..6 \/ (mode = 7 /\ r \in 0..3) -> EaAddr(m, mode, r, 0)
      [] OTHER -> [m |-> m, v |-> <<0, 0>>]

\* test_cc
test_cc(sr, cc) ==
    CASE cc = 0 -> TRUE
      [] cc = 1 -> FALSE
      [] cc = 2 -> ~sr.carry /\ ~sr.zero
      [] cc = 3 -> sr.carry \/ sr.zero
      [] cc = 4 -> ~sr.carry
      [] cc = 5 -> sr.carry
      [] cc = 6 -> ~sr.zero
      [] cc = 7 -> sr.zero
      [] cc = 8 -> ~sr.overflow
      [] cc = 9 -> sr.overflow
      [] cc = 10 -> ~sr.negative
      [] cc = 11 -> sr.negative
      [] cc = 12 -> sr.negative = sr.overflow
      [] cc = 13 -> sr.negative # sr.overflow
      [] cc = 14 -> ~sr.zero /\ (sr.negative = sr.overflow)
      [] cc = 15 -> sr.zero \/ (sr.negative # sr.overflow)
      [] OTHER -> FALSE

---------------------------------------------------------------------------
(* Oxid68k: arithmetic helpers *)

OrL(a, b)  == <<BitOr(a[1], b[1]), BitOr(a[2], b[2])>>
AndL(a, b) == <<BitAnd(a[1], b[1]), BitAnd(a[2], b[2])>>
XorL(a, b) == <<BitXor(a[1], b[1]), BitXor(a[2], b[2])>>

\* Size::from_bits(b & 3), defined for 0, 1, 2
from_bits(b) == CASE b = 0 -> 1 [] b = 1 -> 2 [] b = 2 -> 4

Cyc(m, n) == [m EXCEPT !.c.cycles = n]

\* add_flags: [c |-> cpu with C, V, Z, N set, v |-> result]
add_flags(c, d, s, sz) ==
    LET dm == Masked(d, sz)
        sm == Masked(s, sz)
        r  == Masked(AddL(dm, sm), sz)
    IN  [c |-> [c EXCEPT !.sr.carry = LtL(r, dm),
                         !.sr.overflow = (MsbSet(d, sz) = MsbSet(s, sz))
                                         /\ (MsbSet(d, sz) # MsbSet(r, sz)),
                         !.sr.zero = (r = <<0, 0>>),
                         !.sr.negative = MsbSet(r, sz)],
         v |-> r]

\* sub_flags
sub_flags(c, d, s, sz) ==
    LET dm == Masked(d, sz)
        sm == Masked(s, sz)
        r  == Masked(SubL(dm, sm), sz)
    IN  [c |-> [c EXCEPT !.sr.carry = GtL(sm, dm),
                         !.sr.overflow = (MsbSet(d, sz) # MsbSet(s, sz))
                                         /\ (MsbSet(d, sz) # MsbSet(r, sz)),
                         !.sr.zero = (r = <<0, 0>>),
                         !.sr.negative = MsbSet(r, sz)],
         v |-> r]

\* u32 / u32 and u32 % u32 for a divisor 0 < div <= 65535, by long division
\* on the dividend's four bytes: [q |-> quotient (long), r |-> remainder]
DivModL(dvd, div) ==
    LET b3 == dvd[1] \div 256
        b2 == dvd[1] % 256
        b1 == dvd[2] \div 256
        b0 == dvd[2] % 256
        q3 == b3 \div div
        r3 == b3 % div
        q2 == ((r3 * 256) + b2) \div div
        r2 == ((r3 * 256) + b2) % div
        q1 == ((r2 * 256) + b1) \div div
        r1 == ((r2 * 256) + b1) % div
        q0 == ((r1 * 256) + b0) \div div
        r0 == ((r1 * 256) + b0) % div
    IN  [q |-> <<(q3 * 256) + q2, (q1 * 256) + q0>>, r |-> r0]

\* DIVU (g8, opmode 3)
DivuBy(m, dr, div) ==
    IF div = 0
    THEN exception(m, 5)
    ELSE LET qr == DivModL(m.c.d[dr], div)
             c1 == [m.c EXCEPT !.sr.carry = FALSE]
         IN  Cyc([m EXCEPT !.c =
                    IF qr.q[1] # 0
                    THEN [c1 EXCEPT !.sr.overflow = TRUE]
                    ELSE [c1 EXCEPT !.sr.overflow = FALSE,
                                    !.sr.zero = (qr.q = <<0, 0>>),
                                    !.sr.negative = Bit(qr.q[2], 15),
                                    !.d[dr] = <<qr.r, qr.q[2]>>]], 140)
divu(m, dr, mode, r) ==
    With(read_ea(m, mode, r, 2), LAMBDA e : DivuBy(e.m, dr, e.v[2]))

\* DIVS (g8, opmode 7).  i32 `/` and `%` panic on i32::MIN / -1 in every
\* build profile.
DivsBy(m, dr, div) ==
    IF div = 0
    THEN exception(m, 5)
    ELSE LET dvd   == m.c.d[dr]
             dneg  == Bit(dvd[1], 15)
             dmag  == IF dneg THEN SubL(<<0, 0>>, dvd) ELSE dvd
             vmag  == IF div < 0 THEN 0 - div ELSE div
             qr    == DivModL(dmag, vmag)
             qneg  == (dneg # (div < 0)) /\ qr.q # <<0, 0>>
             fits  == IF qneg THEN LtL(qr.q, <<0, 32769>>)
                              ELSE LtL(qr.q, <<0, 32768>>)
             q     == IF qneg THEN 0 - qr.q[2] ELSE qr.q[2]
             rm    == IF dneg THEN 0 - qr.r ELSE qr.r
             c1    == [m.c EXCEPT !.sr.carry = FALSE]
         IN  IF dvd = <<32768, 0>> /\ div = -1
             THEN [m EXCEPT !.p = "panic"]
             ELSE Cyc([m EXCEPT !.c =
                        IF ~fits
                        THEN [c1 EXCEPT !.sr.overflow = TRUE]
                        ELSE [c1 EXCEPT !.sr.overflow = FALSE,
                                        !.sr.zero = (q = 0),
                                        !.sr.negative = (q < 0),
                                        !.d[dr] = <<rm % 65536, q % 65536>>]], 158)
divs(m, dr, mode, r) ==
    With(read_ea(m, mode, r, 2), LAMBDA e : DivsBy(e.m, dr, SWord(e.v[2])))

\* the operands of the -(Ay),-(Ax) form of subx and addx:
\* [m |-> machine after both reads, d |-> destination, s |-> source]
PredecOperands(m, rx, ry, sz) ==
    With([m EXCEPT !.c.a[ry] = SubL(m.c.a[ry], <<0, sz>>)], LAMBDA m1 :
    With([m1 EXCEPT !.c.a[rx] = SubL(m1.c.a[rx], <<0, sz>>)], LAMBDA m2 :
    With(read_sz(m2, m2.c.a[ry], sz), LAMBDA s :
    With(read_sz(s.m, s.m.c.a[rx], sz), LAMBDA d :
        [m |-> d.m, d |-> d.v, s |-> s.v]))))

\* the flag and result computation shared by the two forms of subx.
\* `(s + x) > d` is a u32 addition: with s = 0xFFFFFFFF and X set it
\* overflows, which panics under overflow checks and wraps to 0 without.
SubxCore(c, d, s, sz, oc) ==
    LET x    == IF c.sr.extend THEN <<0, 1>> ELSE <<0, 0>>
        res  == Masked(SubL(SubL(d, s), x), sz)
        car  == GtL(AddL(s, x), d)
    IN  [c |-> [c EXCEPT !.sr.carry = car,
                         !.sr.overflow = (MsbSet(d, sz) # MsbSet(s, sz))
                                         /\ (MsbSet(d, sz) # MsbSet(res, sz)),
                         !.sr.extend = car,
                         !.sr.zero = IF res # <<0, 0>> THEN FALSE ELSE c.sr.zero,
                         !.sr.negative = MsbSet(res, sz)],
         v |-> res,
         panic |-> s = <<65535, 65535>> /\ c.sr.extend /\ oc]

\* subx
SubxMem(m, k, rx, sz) ==
    IF k.panic
    THEN [m EXCEPT !.p = "panic"]
    ELSE Cyc(write_sz([m EXCEPT !.c = k.c], m.c.a[rx], k.v, sz), 18)
SubxReg(m, k, rx, sz) ==
    IF k.panic
    THEN [m EXCEPT !.p = "panic"]
    ELSE Cyc([m EXCEPT !.c = set_d(k.c, rx, k.v, sz)], 4)
SubxSized(m, rx, ry, rm, sz) ==
    IF rm
    THEN With(PredecOperands(m, rx, ry, sz), LAMBDA o :
            SubxMem(o.m, SubxCore(o.m.c, o.d, o.s, sz, overflow_checks), rx, sz))
    ELSE SubxReg(m, SubxCore(m.c, Masked(m.c.d[rx], sz), Masked(m.c.d[ry], sz), sz,
                             overflow_checks), rx, sz)
subx(m, op) ==
    SubxSized(m, (op \div 512) % 8, op % 8, Bit(op, 3), from_bits((op \div 64) % 4))

\* the flag and result computation shared by the two forms of addx
AddxCore(c, d, s, sz) ==
    LET x    == IF c.sr.extend THEN <<0, 1>> ELSE <<0, 0>>
        res  == Masked(AddL(AddL(d, s), x), sz)
        car  == LtL(res, d) \/ (c.sr.extend /\ res = d)
    IN  [c |-> [c EXCEPT !.sr.carry = car,
                         !.sr.overflow = (MsbSet(d, sz) = MsbSet(s, sz))
                                         /\ (MsbSet(d, sz) # MsbSet(res, sz)),
                         !.sr.extend = car,
                         !.sr.zero = IF res # <<0, 0>> THEN FALSE ELSE c.sr.zero,
                         !.sr.negative = MsbSet(res, sz)],
         v |-> res]

\* addx
AddxMem(m, k, rx, sz) == Cyc(write_sz([m EXCEPT !.c = k.c], m.c.a[rx], k.v, sz), 18)
AddxReg(m, k, rx, sz) == Cyc([m EXCEPT !.c = set_d(k.c, rx, k.v, sz)], 4)
AddxSized(m, rx, ry, rm, sz) ==
    IF rm
    THEN With(PredecOperands(m, rx, ry, sz), LAMBDA o :
            AddxMem(o.m, AddxCore(o.m.c, o.d, o.s, sz), rx, sz))
    ELSE AddxReg(m, AddxCore(m.c, Masked(m.c.d[rx], sz), Masked(m.c.d[ry], sz), sz),
                 rx, sz)
addx(m, op) ==
    AddxSized(m, (op \div 512) % 8, op % 8, Bit(op, 3), from_bits((op \div 64) % 4))

---------------------------------------------------------------------------
(* Oxid68k: the instruction decoder.  Each group follows the order of the   *)
(* tests in the source; an opcode that reaches an arm this model does not   *)
(* cover ends the call "unmodelled".                                        *)

Unmodelled(m) == [m EXCEPT !.p = "unmodelled"]

\* opcode fields
OpMode(op) == (op \div 8) % 8
OpReg(op)  == op % 8
OpDr(op)   == (op \div 512) % 8

\* g0: the status-register forms (ORI/ANDI/EORI to CCR and to SR)
ToCcr(m, f(_, _)) ==
    With(fetch(m), LAMBDA v :
        Cyc([v.m EXCEPT !.c = set_ccr(v.m.c, f(to_u16(v.m.c.sr) % 256, v.v % 256))], 20))
ToSr(m, f(_, _)) ==
    IF ~m.c.sr.supervisor
    THEN exception(m, 8)
    ELSE With(fetch(m), LAMBDA v :
            Cyc([v.m EXCEPT !.c = set_sr(v.m.c, f(to_u16(v.m.c.sr), v.v))], 20))
g0(m, op) ==
    CASE op = 60   -> ToCcr(m, BitOr)
      [] op = 124  -> ToSr(m, BitOr)
      [] op = 572  -> ToCcr(m, BitAnd)
      [] op = 636  -> ToSr(m, BitAnd)
      [] op = 2620 -> ToCcr(m, BitXor)
      [] op = 2684 -> ToSr(m, BitXor)
      [] OTHER -> Unmodelled(m)

\* mov: MOVE / MOVEA
mov(m, op, sz) ==
    With(read_ea(m, OpMode(op), OpReg(op), sz), LAMBDA v :
        Cyc(write_ea(IF (op \div 64) % 8 # 1
                     THEN [v.m EXCEPT !.c.sr = set_logic(v.m.c.sr, v.v, sz)]
                     ELSE v.m,
                     (op \div 64) % 8, OpDr(op), sz, v.v), 4))

\* moveq
moveq(m, op) ==
    Cyc([m EXCEPT !.c.d[OpDr(op)] = SextB(op % 256),
                  !.c.sr = set_logic(m.c.sr, SextB(op % 256), 4)], 4)

\* STOP without the privilege check
stop_NoPrivilegeCheck(m) ==
    With(fetch(m), LAMBDA v :
        Cyc([v.m EXCEPT !.c = [set_sr(v.m.c, v.v) EXCEPT !.stopped = TRUE]], 4))

\* g4, STOP (0x4E72)
stop(m) ==
    IF ~m.c.sr.supervisor
    THEN exception(m, 8)
    ELSE With(fetch(m), LAMBDA v :
            Cyc([v.m EXCEPT !.c = [set_sr(v.m.c, v.v) EXCEPT !.stopped = TRUE]], 4))

\* a7 = a7.wrapping_add(n)
PopBytes(m, n) == [m EXCEPT !.c.a[7] = AddL(m.c.a[7], <<0, n>>)]

\* RTE that loads SR without exchanging A7 and the stack shadows
rte_NoStackSwap(m) ==
    IF ~m.c.sr.supervisor
    THEN exception(m, 8)
    ELSE With(read_word(m, m.c.a[7]), LAMBDA s :
         With(PopBytes(s.m, 2), LAMBDA m1 :
         With(read_long(m1, m1.c.a[7]), LAMBDA p :
         With(PopBytes(p.m, 4), LAMBDA m2 :
            Cyc([m2 EXCEPT !.c = [m2.c EXCEPT !.sr = from_u16(s.v), !.pc = p.v]], 20)))))

\* g4, RTE (0x4E73)
rte(m) ==
    IF ~m.c.sr.supervisor
    THEN exception(m, 8)
    ELSE With(read_word(m, m.c.a[7]), LAMBDA s :
         With(PopBytes(s.m, 2), LAMBDA m1 :
         With(read_long(m1, m1.c.a[7]), LAMBDA p :
         With(PopBytes(p.m, 4), LAMBDA m2 :
            Cyc([m2 EXCEPT !.c = [set_sr(m2.c, s.v) EXCEPT !.pc = p.v]], 20)))))

\* g4, RTS (0x4E75)
rts(m) ==
    With(read_long(m, m.c.a[7]), LAMBDA p :
        Cyc([PopBytes(p.m, 4) EXCEPT !.c.pc = p.v], 16))

\* g4, RTR (0x4E77)
rtr(m) ==
    With(read_word(m, m.c.a[7]), LAMBDA s :
    With(PopBytes(s.m, 2), LAMBDA m0 :
    With([m0 EXCEPT !.c = set_ccr(m0.c, s.v % 256)], LAMBDA m1 :
    With(read_long(m1, m1.c.a[7]), LAMBDA p :
        Cyc([PopBytes(p.m, 4) EXCEPT !.c.pc = p.v], 20)))))

\* g4, MOVE USP (0x4E60..0x4E6F)
move_usp(m, op) ==
    IF ~m.c.sr.supervisor
    THEN exception(m, 8)
    ELSE IF Bit(op, 3)
         THEN Cyc([m EXCEPT !.c.a[op % 8] = m.c.usp], 4)
         ELSE Cyc([m EXCEPT !.c.usp = m.c.a[op % 8]], 4)

\* g4, TRAP #n (0x4E40..0x4E4F)
trap(m, op) == exception(m, 32 + (op % 16))

\* g4, LINK (0x4E50..0x4E57): a7 -= 4; write_long(a7, a[rg]); a[rg] = a7;
\* a7 += d
link(m, op) ==
    With(fetch(m), LAMBDA d :
    With([d.m EXCEPT !.c.a[7] = SubL(d.m.c.a[7], <<0, 4>>)], LAMBDA m0 :
    With(write_long(m0, m0.c.a[7], m0.c.a[op % 8]), LAMBDA m1 :
    With([m1 EXCEPT !.c.a[op % 8] = m1.c.a[7]], LAMBDA m2 :
        Cyc([m2 EXCEPT !.c.a[7] = AddL(m2.c.a[7], SextW(d.v))], 16)))))

\* g4, UNLK (0x4E58..0x4E5F)
unlk(m, op) ==
    With([m EXCEPT !.c.a[7] = m.c.a[op % 8]], LAMBDA m1 :
    With(read_long(m1, m1.c.a[7]), LAMBDA v :
    With([v.m EXCEPT !.c.a[op % 8] = v.v], LAMBDA m2 :
        Cyc(PopBytes(m2, 4), 12))))

\* g4, the arms for size bits 3: MOVE from SR, MOVE to CCR, MOVE to SR, TAS,
\* JMP/JSR, and vector 4 for the rest
Sz3Arm(m, mode, r, k) ==
    CASE k = 0 -> Cyc(write_ea(m, mode, r, 2, <<0, to_u16(m.c.sr)>>), 8)
      [] k = 4 -> With(read_ea(m, mode, r, 2), LAMBDA v :
                    Cyc([v.m EXCEPT !.c = set_ccr(v.m.c, v.v[2] % 256)], 12))
      [] k = 6 -> IF ~m.c.sr.supervisor
                  THEN exception(m, 8)
                  ELSE With(read_ea(m, mode, r, 2), LAMBDA v :
                          Cyc([v.m EXCEPT !.c = set_sr(v.m.c, v.v[2])], 12))
      [] k = 10 -> With(read_ea(m, mode, r, 1), LAMBDA v :
                     Cyc(write_ea([v.m EXCEPT !.c.sr = set_logic(v.m.c.sr, v.v, 1)],
                                  mode, r, 1, <<0, BitOr(v.v[2], 128)>>), 4))
      [] k = 14 -> IF mode >= 2
                   THEN With(calc_ea(m, mode, r), LAMBDA t :
                           Cyc([t.m EXCEPT !.c.pc = t.v], 8))
                   ELSE With(calc_ea(m, mode, r), LAMBDA t :
                           Cyc([PushLong(t.m, t.m.c.pc) EXCEPT !.c.pc = t.v], 16))
      [] OTHER -> exception(m, 4)
g4_sz3(m, op) == Sz3Arm(m, OpMode(op), OpReg(op), (op \div 256) % 16)

\* g4, the sized arms: CLR and TST (NEGX, NEG, NOT, NBCD are not covered)
ClrFlags(c) ==
    [c EXCEPT !.sr.zero = TRUE, !.sr.negative = FALSE,
              !.sr.overflow = FALSE, !.sr.carry = FALSE]
SizedArm(m, mode, r, sz, k) ==
    CASE k \in {0, 4, 6, 8} -> Unmodelled(m)
      [] k = 2 ->
            IF mode = 0
            THEN Cyc([m EXCEPT !.c = ClrFlags(set_d(m.c, r, <<0, 0>>, sz))], 4)
            ELSE With(calc_ea(m, mode, r), LAMBDA a :
                 With(read_sz(a.m, a.v, sz), LAMBDA d :
                 With(write_sz(d.m, a.v, <<0, 0>>, sz), LAMBDA m1 :
                    Cyc([m1 EXCEPT !.c = ClrFlags(m1.c)], 4))))
      [] k = 10 -> With(read_ea(m, mode, r, sz), LAMBDA v :
                     Cyc([v.m EXCEPT !.c.sr = set_logic(v.m.c.sr, v.v, sz)], 4))
      [] OTHER -> exception(m, 4)
g4_sized(m, op) ==
    SizedArm(m, OpMode(op), OpReg(op), from_bits((op \div 64) % 4), (op \div 256) % 16)

\* g4, SWAP / PEA / LEA
swap(m, r) ==
    Cyc([m EXCEPT !.c.d[r] = <<m.c.d[r][2], m.c.d[r][1]>>,
                  !.c.sr = set_logic(m.c.sr, <<m.c.d[r][2], m.c.d[r][1]>>, 4)], 4)
pea(m, mode, r) ==
    With(calc_ea(m, mode, r), LAMBDA a : Cyc(PushLong(a.m, a.v), 12))
lea(m, mode, r, dr) ==
    With(calc_ea(m, mode, r), LAMBDA a : Cyc([a.m EXCEPT !.c.a[dr] = a.v], 4))

\* movem: mask.count_ones()
count_ones(mask) == Cardinality({i \in 0..15 : Bit(mask, i)})

\* movem, memory to registers: the loop from list position i, reading at a;
\* [m |-> machine after, v |-> a after]
MovemRead(m, a, sz) ==
    IF sz = 2
    THEN With(read_word(m, a), LAMBDA w : [m |-> w.m, v |-> SextW(w.v)])
    ELSE read_long(m, a)
RECURSIVE MovemLoad(_, _, _, _, _)
MovemLoad(m, mask, a, sz, i) ==
    IF i = 16 THEN [m |-> m, v |-> a]
    ELSE IF Bit(mask, i)
    THEN With(MovemRead(m, a, sz), LAMBDA rd :
             MovemLoad(IF i < 8 THEN [rd.m EXCEPT !.c.d[i] = rd.v]
                                ELSE [rd.m EXCEPT !.c.a[i - 8] = rd.v],
                       mask, AddL(a, <<0, sz>>), sz, i + 1))
    ELSE MovemLoad(m, mask, a, sz, i + 1)

\* movem, registers to -(An): mask bit 15 - i names A(7 - i), then D(15 - i)
RECURSIVE MovemPush(_, _, _, _, _)
MovemPush(m, mask, a, sz, i) ==
    IF i = 16 THEN [m |-> m, v |-> a]
    ELSE IF Bit(mask, 15 - i)
    THEN MovemPush(write_sz(m, SubL(a, <<0, sz>>),
                            IF i < 8 THEN m.c.a[7 - i] ELSE m.c.d[15 - i], sz),
                   mask, SubL(a, <<0, sz>>), sz, i + 1)
    ELSE MovemPush(m, mask, a, sz, i + 1)

\* movem, registers to the other modes
RECURSIVE MovemStore(_, _, _, _, _)
MovemStore(m, mask, a, sz, i) ==
    IF i = 16 THEN [m |-> m, v |-> a]
    ELSE IF Bit(mask, i)
    THEN MovemStore(write_sz(m, a, IF i < 8 THEN m.c.d[i] ELSE m.c.a[i - 8], sz),
                    mask, AddL(a, <<0, sz>>), sz, i + 1)
    ELSE MovemStore(m, mask, a, sz, i + 1)

\* movem: base and mask, [m |-> machine after, v |-> <<base, mask>>]
MovemOperands(m, mode, r) ==
    IF mode = 4
    THEN With(fetch(m), LAMBDA mk : [m |-> mk.m, v |-> <<mk.m.c.a[r], mk.v>>])
    ELSE With(calc_ea(m, mode, r), LAMBDA a :
         With(fetch(a.m), LAMBDA mk : [m |-> mk.m, v |-> <<a.v, mk.v>>]))
MovemCycles(m, mask, sz) == Cyc(m, 8 + (count_ones(mask) * (IF sz = 4 THEN 8 ELSE 4)))
MovemBody(m, mode, r, dir, sz, base, mask) ==
    IF dir
    THEN With(MovemLoad(m, mask, base, sz, 0), LAMBDA l :
             IF mode = 3 THEN [l.m EXCEPT !.c.a[r] = l.v] ELSE l.m)
    ELSE IF mode = 4
    THEN With(MovemPush(m, mask, base, sz, 0), LAMBDA l : [l.m EXCEPT !.c.a[r] = l.v])
    ELSE MovemStore(m, mask, base, sz, 0).m
movem(m, op) ==
    With(MovemOperands(m, OpMode(op), OpReg(op)), LAMBDA o :
        MovemCycles(MovemBody(o.m, OpMode(op), OpReg(op), Bit(op, 10),
                              IF Bit(op, 6) THEN 4 ELSE 2, o.v[1], o.v[2]),
                    o.v[2], IF Bit(op, 6) THEN 4 ELSE 2))

\* g4, EXT.W / EXT.L
ext_w(m, r) ==
    Cyc([m EXCEPT !.c.d[r] = <<m.c.d[r][1], SextB(m.c.d[r][2] % 256)[2]>>,
                  !.c.sr = set_logic(m.c.sr, <<0, SextB(m.c.d[r][2] % 256)[2]>>, 2)], 4)
ext_l(m, r) ==
    Cyc([m EXCEPT !.c.d[r] = SextW(m.c.d[r][2]),
                  !.c.sr = set_logic(m.c.sr, SextW(m.c.d[r][2]), 4)], 4)

\* g4
g4(m, op) ==
    CASE op = 20080 -> Cyc(m, 132)
      [] op = 20081 -> Cyc(m, 4)
      [] op = 20082 -> stop(m)
      [] op = 20083 -> rte(m)
      [] op = 20085 -> rts(m)
      [] op = 20086 -> Cyc(IF m.c.sr.overflow THEN exception(m, 7) ELSE m, 4)
      [] op = 20087 -> rtr(m)
      [] OTHER ->
         IF (op \div 16) = 1254 THEN move_usp(m, op)
         ELSE IF (op \div 16) = 1252 THEN trap(m, op)
         ELSE IF (op \div 8) = 2506 THEN link(m, op)
         ELSE IF (op \div 8) = 2507 THEN unlk(m, op)
         ELSE IF BitAnd(op, 64384) = 18560 THEN movem(m, op)
         ELSE IF (op \div 8) = 2320 THEN ext_w(m, OpReg(op))
         ELSE IF (op \div 8) = 2328 THEN ext_l(m, OpReg(op))
         ELSE IF (op \div 8) = 2312 /\ OpMode(op) = 0 THEN swap(m, OpReg(op))
         ELSE IF (op \div 64) = 289 /\ OpMode(op) # 0 THEN pea(m, OpMode(op), OpReg(op))
         ELSE IF BitAnd(op, 61888) = 16832 THEN lea(m, OpMode(op), OpReg(op), OpDr(op))
         ELSE IF BitAnd(op, 61888) = 16768 THEN Unmodelled(m)  \* CHK
         ELSE IF (op \div 64) % 4 = 3 THEN g4_sz3(m, op)
         ELSE g4_sized(m, op)

\* sr.extend = sr.carry
ExtendFromCarry(f) == [c |-> [f.c EXCEPT !.sr.extend = f.c.sr.carry], v |-> f.v]

\* g5: DBcc
DbccTaken(m1, r, disp) ==
    IF m1.c.d[r][2] # 65535
    THEN Cyc([m1 EXCEPT !.c.pc = AddL(SubL(m1.c.pc, <<0, 2>>), SextW(disp))], 10)
    ELSE Cyc(m1, 14)
\* DBcc that falls through when the counter reaches 0
dbcc_StopsAtZero(m, r, cc) ==
    With(fetch(m), LAMBDA disp :
        IF ~test_cc(disp.m.c.sr, cc)
        THEN With([disp.m EXCEPT !.c.d[r] =
                      <<disp.m.c.d[r][1], (disp.m.c.d[r][2] + 65535) % 65536>>], LAMBDA m1 :
                 IF m1.c.d[r][2] # 0
                 THEN Cyc([m1 EXCEPT !.c.pc = AddL(SubL(m1.c.pc, <<0, 2>>), SextW(disp.v))], 10)
                 ELSE Cyc(m1, 14))
        ELSE Cyc(disp.m, 12))
dbcc(m, r, cc) ==
    With(fetch(m), LAMBDA disp :
        IF ~test_cc(disp.m.c.sr, cc)
        THEN DbccTaken([disp.m EXCEPT !.c.d[r] =
                            <<disp.m.c.d[r][1], (disp.m.c.d[r][2] + 65535) % 65536>>],
                       r, disp.v)
        ELSE Cyc(disp.m, 12))

\* g5: ADDQ / SUBQ
AddSubQ(m, mode, r, sz, d, sub) ==
    IF mode = 1
    THEN Cyc([m EXCEPT !.c.a[r] = IF sub THEN SubL(m.c.a[r], d) ELSE AddL(m.c.a[r], d)], 4)
    ELSE With(read_ea(m, mode, r, sz), LAMBDA dst :
         With(ExtendFromCarry(IF sub THEN sub_flags(dst.m.c, dst.v, d, sz)
                                     ELSE add_flags(dst.m.c, dst.v, d, sz)), LAMBDA f :
            Cyc(write_ea([dst.m EXCEPT !.c = f.c], mode, r, sz, f.v), 4)))

\* g5: ADDQ / SUBQ, DBcc, Scc
g5(m, op) ==
    IF (op \div 64) % 4 = 3
    THEN IF OpMode(op) = 1
         THEN dbcc(m, OpReg(op), (op \div 256) % 16)
         ELSE Cyc(write_ea(m, OpMode(op), OpReg(op), 1,
                           IF test_cc(m.c.sr, (op \div 256) % 16)
                           THEN <<0, 255>> ELSE <<0, 0>>), 8)
    ELSE AddSubQ(m, OpMode(op), OpReg(op), from_bits((op \div 64) % 4),
                 <<0, IF OpDr(op) = 0 THEN 8 ELSE OpDr(op)>>, Bit(op, 8))

\* g6: BRA / BSR / Bcc, once the displacement is known
Branch(m, cc, dest, long) ==
    CASE cc = 0 -> Cyc([m EXCEPT !.c.pc = dest], 10)
      [] cc = 1 -> Cyc([PushLong(m, m.c.pc) EXCEPT !.c.pc = dest], 18)
      [] OTHER -> IF test_cc(m.c.sr, cc)
                  THEN Cyc([m EXCEPT !.c.pc = dest], 10)
                  ELSE Cyc(m, IF long THEN 12 ELSE 8)
g6(m, op) ==
    IF op % 256 = 0
    THEN With(fetch(m), LAMBDA f :
            Branch(f.m, (op \div 256) % 16,
                   AddL(SubL(f.m.c.pc, <<0, 2>>), SextW(f.v)), TRUE))
    ELSE Branch(m, (op \div 256) % 16, AddL(m.c.pc, SextB(op % 256)), FALSE)

\* abcd / sbcd (d, s bytes, x 0 or 1): [c |-> cpu with C, X, Z set, v |-> result]
BcdFlags(c, carry, r) ==
    [c |-> [c EXCEPT !.sr.carry = carry, !.sr.extend = carry,
                     !.sr.zero = IF r # 0 THEN FALSE ELSE @],
     v |-> r]
\* abcd that sets Z from the result byte alone
abcd_SetsZero(c, d, s, x) ==
    With((((d % 16) + (s % 16) + x) \div 10) + (d \div 16) + (s \div 16), LAMBDA hi :
        [c |-> [c EXCEPT !.sr.carry = hi > 9, !.sr.extend = hi > 9,
                         !.sr.zero = ((hi % 10) = 0 /\ (((d % 16) + (s % 16) + x) % 10) = 0)],
         v |-> ((hi % 10) * 16) + (((d % 16) + (s % 16) + x) % 10)])
abcd(c, d, s, x) ==
    With(<<IF (d % 16) + (s % 16) + x > 9 THEN (d % 16) + (s % 16) + x - 10
                                            ELSE (d % 16) + (s % 16) + x,
           IF (d % 16) + (s % 16) + x > 9 THEN (d \div 16) + (s \div 16) + 1
                                            ELSE (d \div 16) + (s \div 16)>>,
         LAMBDA n :
             BcdFlags(c, n[2] > 9,
                      (((IF n[2] > 9 THEN n[2] - 10 ELSE n[2]) % 16) * 16) + (n[1] % 16)))
sbcd(c, d, s, x) ==
    With(<<IF (d % 16) - (s % 16) - x < 0 THEN (d % 16) - (s % 16) - x + 10
                                            ELSE (d % 16) - (s % 16) - x,
           IF (d % 16) - (s % 16) - x < 0 THEN (d \div 16) - (s \div 16) - 1
                                            ELSE (d \div 16) - (s \div 16)>>,
         LAMBDA n :
             BcdFlags(c, n[2] < 0,
                      (((IF n[2] < 0 THEN n[2] + 10 ELSE n[2]) % 16) * 16) + (n[1] % 16)))

\* g8 arm 4 (SBCD) and gc arm 4 (ABCD): Dy,Dx or -(Ay),-(Ax)
BcdCarryIn(c) == IF c.sr.extend THEN 1 ELSE 0
BcdApply(c, d, s, sub) ==
    IF sub THEN sbcd(c, d, s, BcdCarryIn(c)) ELSE abcd(c, d, s, BcdCarryIn(c))
BcdMemory(m1, rx, ry, sub) ==
    With(read_byte(m1, m1.c.a[ry]), LAMBDA s :
    With(read_byte(s.m, s.m.c.a[rx]), LAMBDA d :
    With(BcdApply(d.m.c, d.v, s.v, sub), LAMBDA res :
        Cyc(write_byte([d.m EXCEPT !.c = res.c], res.c.a[rx], res.v), 18))))
BcdArm(m, rx, ry, rm, sub) ==
    IF rm
    THEN BcdMemory([m EXCEPT !.c.a =
                       [[m.c.a EXCEPT ![ry] = SubL(@, <<0, 1>>)]
                           EXCEPT ![rx] = SubL(@, <<0, 1>>)]],
                   rx, ry, sub)
    ELSE With(BcdApply(m.c, m.c.d[rx][2] % 256, m.c.d[ry][2] % 256, sub), LAMBDA res :
             Cyc([m EXCEPT !.c = set_d(res.c, rx, <<0, res.v>>, 1)], 6))

\* g8: OR <ea>,Dn and OR Dn,<ea>
OrToReg(m, dr, res, sz) ==
    Cyc([m EXCEPT !.c = [set_d(m.c, dr, res, sz) EXCEPT
                            !.sr = set_logic(m.c.sr, res, sz)]], 4)
OrToEa(m, mode, r, sz, res) ==
    With(write_ea(m, mode, r, sz, res), LAMBDA m1 :
        Cyc([m1 EXCEPT !.c.sr = set_logic(m1.c.sr, res, sz)], 8))

\* g8: OR, DIVU, SBCD, DIVS
G8Arm(m, dr, mode, r, k) ==
    CASE k \in {0, 1, 2} ->
           With(read_ea(m, mode, r, from_bits(k)), LAMBDA s :
               OrToReg(s.m, dr, OrL(s.m.c.d[dr], s.v), from_bits(k)))
      [] k = 3 -> divu(m, dr, mode, r)
      [] k = 4 -> BcdArm(m, dr, r, mode % 2 = 1, TRUE)
      [] k \in {5, 6} ->
           With(read_ea(m, mode, r, IF k = 5 THEN 2 ELSE 4), LAMBDA d :
               OrToEa(d.m, mode, r, IF k = 5 THEN 2 ELSE 4, OrL(m.c.d[dr], d.v)))
      [] k = 7 -> divs(m, dr, mode, r)
g8(m, op) == G8Arm(m, OpDr(op), OpMode(op), OpReg(op), (op \div 64) % 8)

\* g9 / gd: SUB, SUBA, SUBX and ADD, ADDA, ADDX
AddSubFlags(c, d, s, sz, add) ==
    ExtendFromCarry(IF add THEN add_flags(c, d, s, sz) ELSE sub_flags(c, d, s, sz))
AddSubArm(m, op, dr, mode, r, k, add) ==
    CASE k \in {0, 1, 2} ->
           With(read_ea(m, mode, r, from_bits(k)), LAMBDA s :
           With(AddSubFlags(s.m.c, s.m.c.d[dr], s.v, from_bits(k), add), LAMBDA f :
               Cyc([s.m EXCEPT !.c = set_d(f.c, dr, f.v, from_bits(k))], 4)))
      [] k = 3 ->
           With(read_ea(m, mode, r, 2), LAMBDA s :
               Cyc([s.m EXCEPT !.c.a[dr] = IF add THEN AddL(s.m.c.a[dr], SextW(s.v[2]))
                                                  ELSE SubL(s.m.c.a[dr], SextW(s.v[2]))], 8))
      [] k \in {4, 5, 6} ->
           IF mode = 0 \/ mode = 1
           THEN (IF add THEN addx(m, op) ELSE subx(m, op))
           ELSE With(read_ea(m, mode, r, from_bits(k - 4)), LAMBDA d :
                With(AddSubFlags(d.m.c, d.v, m.c.d[dr], from_bits(k - 4), add), LAMBDA f :
                    Cyc(write_ea([d.m EXCEPT !.c = f.c], mode, r, from_bits(k - 4), f.v), 8)))
      [] k = 7 ->
           With(read_ea(m, mode, r, 4), LAMBDA s :
               Cyc([s.m EXCEPT !.c.a[dr] = IF add THEN AddL(s.m.c.a[dr], s.v)
                                                  ELSE SubL(s.m.c.a[dr], s.v)], 8))
\* gc: AND, ABCD, EXG (MULU and MULS are not covered)
AndToEa(m, dr, mode, r, sz, cyc) ==
    With(read_ea(m, mode, r, sz), LAMBDA d :
    With(write_ea(d.m, mode, r, sz, AndL(m.c.d[dr], d.v)), LAMBDA m1 :
        Cyc([m1 EXCEPT !.c.sr = set_logic(m1.c.sr, AndL(m.c.d[dr], d.v), sz)], cyc)))
GcArm(m, dr, mode, r, k) ==
    CASE k \in {0, 1, 2} ->
           With(read_ea(m, mode, r, from_bits(k)), LAMBDA s :
               OrToReg(s.m, dr, AndL(s.m.c.d[dr], s.v), from_bits(k)))
      [] k \in {3, 7} -> Unmodelled(m)
      [] k = 4 -> IF mode = 0 \/ mode = 1
                  THEN BcdArm(m, dr, r, mode = 1, FALSE)
                  ELSE AndToEa(m, dr, mode, r, 1, 8)
      [] k = 5 ->
           IF mode = 0
           THEN Cyc([m EXCEPT !.c.d = [[@ EXCEPT ![dr] = m.c.d[r]] EXCEPT ![r] = m.c.d[dr]]], 6)
           ELSE IF mode = 1
           THEN Cyc([m EXCEPT !.c.a = [[@ EXCEPT ![dr] = m.c.a[r]] EXCEPT ![r] = m.c.a[dr]]], 6)
           ELSE AndToEa(m, dr, mode, r, 2, 8)
      [] k = 6 ->
           IF mode = 1
           THEN Cyc([m EXCEPT !.c.d[dr] = m.c.a[r], !.c.a[r] = m.c.d[dr]], 6)
           ELSE AndToEa(m, dr, mode, r, 4, 12)
gc(m, op) == GcArm(m, OpDr(op), OpMode(op), OpReg(op), (op \div 64) % 8)

g9(m, op) == AddSubArm(m, op, OpDr(op), OpMode(op), OpReg(op), (op \div 64) % 8, FALSE)
gd(m, op) == AddSubArm(m, op, OpDr(op), OpMode(op), OpReg(op), (op \div 64) % 8, TRUE)

\* exec: dispatch on the opcode's top nibble
exec(m, op) ==
    CASE op \div 4096 = 0 -> g0(m, op)
      [] op \div 4096 = 1 -> mov(m, op, 1)
      [] op \div 4096 = 2 -> mov(m, op, 4)
      [] op \div 4096 = 3 -> mov(m, op, 2)
      [] op \div 4096 = 4 -> g4(m, op)
      [] op \div 4096 = 5 -> g5(m, op)
      [] op \div 4096 = 6 -> g6(m, op)
      [] op \div 4096 = 7 -> moveq(m, op)
      [] op \div 4096 = 8 -> g8(m, op)
      [] op \div 4096 = 9 -> g9(m, op)
      [] op \div 4096 = 10 -> exception(m, 10)
      [] op \div 4096 = 11 -> Unmodelled(m)
      [] op \div 4096 = 12 -> gc(m, op)
      [] op \div 4096 = 13 -> gd(m, op)
      [] op \div 4096 = 14 -> Unmodelled(m)
      [] op \div 4096 = 15 -> exception(m, 11)

---------------------------------------------------------------------------
(* Oxid68k::step, and what one call of it did *)

\* step: [m |-> machine after, ret |-> cycles returned] and a trace of the
\* call: lv, the level process_int serviced (0: none); mid, the machine as
\* process_int left it; fetched / op, the opcode fetch; ex, the machine as
\* exec left it; acks / fault, the bus-error acknowledge
NoStep(m, m1, ret, lv) ==
    [m |-> m1, ret |-> ret, lv |-> lv, mid |-> m1, fetched |-> FALSE, op |-> 0,
     ex |-> m1, acks |-> 0, fault |-> <<0, 0>>]
\* the tail of step: `if let Some(fault_addr) = bus.bus_error() { ... }`
AfterExec(m1, lv, op, m3) ==
    IF m3.p = "run" /\ IsSome(bus_error(m3.b))
    THEN With(exception_bus_error([m3 EXCEPT !.b = ack_bus_error(m3.b)],
                                  Unwrap(bus_error(m3.b)), op), LAMBDA m4 :
            [m |-> m4, ret |-> m4.c.cycles, lv |-> lv, mid |-> m1, fetched |-> TRUE,
             op |-> op, ex |-> m3, acks |-> 1, fault |-> Unwrap(bus_error(m3.b))])
    ELSE [m |-> m3, ret |-> m3.c.cycles, lv |-> lv, mid |-> m1, fetched |-> TRUE,
          op |-> op, ex |-> m3, acks |-> 0, fault |-> <<0, 0>>]
\* step from `if self.stopped` on, interrupts processed
AfterInt(m1, lv) ==
    IF m1.c.stopped
    THEN NoStep(m1, m1, 4, lv)
    ELSE With(fetch(m1), LAMBDA f :
            AfterExec(m1, lv, f.v, exec(Cyc(f.m, 4), f.v)))
step(m) ==
    IF m.c.halted
    THEN NoStep(m, m, 0, 0)
    ELSE AfterInt(IF IsSome(m.c.pending_int) THEN process_int(m) ELSE m,
                  IF IsSome(m.c.pending_int) /\ Unwrap(m.c.pending_int) > m.c.sr.int_mask
                  THEN Unwrap(m.c.pending_int) ELSE 0)

---------------------------------------------------------------------------
(* The host: it builds the CPU and the bus around a ROM, resets the CPU      *)
(* through the bus, then steps it, raising interrupt lines between steps     *)
(* (oxid_mac main.rs).                                                       *)

\* the interrupt levels the host raises (0: no line asserted)
IntLevels == {0, 3, 6, 7}

\* the ROMs the host loads.  Image 5 is booted with several reset vectors
\* (0x4001C0 is the program's address in the ROM window at 0x400000).
SspVectors == {<<1, 0>>, <<8, 0>>, <<16, 0>>, <<16, 1>>, <<255, 65024>>}
PcVectors  == {<<0, 448>>, <<64, 448>>}
Roms ==
    {[img |-> i, ssp |-> <<1, 0>>, pcv |-> <<0, 448>>] : i \in {1, 2, 3, 4, 6, 7, 8}}
    \cup {[img |-> 5, ssp |-> s, pcv |-> p] : s \in SspVectors, p \in PcVectors}

\* what the model remembers of the calls made so far: call / arg, the last
\* call; req_max, the highest level requested since the last step; and of
\* the last step: prev / parg, the call before it; frames, the exception
\* frames it pushed; pre, the machine it started from; and the trace of step;
\* was_stopped, the CPU was stopped when trigger_interrupt was called; woke,
\* a trigger_interrupt since the last step took the CPU out of the stopped
\* state; uentry, the latest exception or interrupt taken from user mode
NoEntry == [open |-> FALSE, sr |-> 0, a7 |-> <<0, 0>>, ssp |-> <<0, 0>>, ret |-> <<0, 0>>]
\* the entry from machine `from` (S = 0) that left machine `to` (S = 1): the
\* SR, A7 and SSP shadow it started from and the return address it pushed
EntryFrom(from, to) ==
    [open |-> TRUE, sr |-> to_u16(from.c.sr), a7 |-> from.c.a[7], ssp |-> from.c.ssp,
     ret |-> read_long(to, SubL(from.c.ssp, <<0, 4>>)).v]
\* the user-mode entry the step with trace r made last, or the one before it
UserEntry(old, pre, r) ==
    IF r.m.p # "run" THEN old
    ELSE IF r.acks = 1 /\ ~r.ex.c.sr.supervisor THEN EntryFrom(r.ex, r.m)
    ELSE IF r.fetched /\ ~r.mid.c.sr.supervisor /\ r.ex.c.sr.supervisor
         THEN EntryFrom(r.mid, r.ex)
    ELSE IF r.lv > 0 /\ ~pre.c.sr.supervisor THEN EntryFrom(pre, r.mid)
    ELSE old
NoCall ==
    [call |-> "new", arg |-> 0, req_max |-> 0, prev |-> "new", parg |-> 0, frames |-> <<>>,
     uentry |-> NoEntry,
     pre |-> Mach(NewCpu, NewBus(CHOOSE r \in Roms : TRUE)),
     lv |-> 0, mid |-> Mach(NewCpu, NewBus(CHOOSE r \in Roms : TRUE)),
     fetched |-> FALSE, op |-> 0, ex |-> Mach(NewCpu, NewBus(CHOOSE r \in Roms : TRUE)),
     acks |-> 0, fault |-> <<0, 0>>, ret |-> 0, was_stopped |-> FALSE, woke |-> FALSE,
     addr |-> <<0, 0>>, val |-> <<0, 0>>, got |-> <<0, 0>>, wrote |-> FALSE]

Init68 ==
    /\ cpu = NewCpu
    /\ \E r \in Roms : bus = NewBus(r)
    /\ panicked = FALSE
    /\ overflow_checks \in BOOLEAN
    /\ last = [NoCall EXCEPT !.pre = Mach(cpu, bus), !.mid = Mach(cpu, bus),
                             !.ex = Mach(cpu, bus)]

\* cpu.reset_with_bus(&mut bus), the host's first call
ResetWithBus ==
    /\ last.call = "new"
    /\ \E m \in {reset_with_bus(Mach(cpu, bus))} :
           /\ cpu' = m.c
           /\ bus' = m.b
           /\ last' = [last EXCEPT !.call = "reset_with_bus", !.pre = Mach(cpu, bus),
                                   !.mid = m, !.ex = m]
    /\ UNCHANGED <<panicked, overflow_checks>>
    /\ UNCHANGED <<varsZ, varsM>>

\* cpu.trigger_interrupt(lv)
TriggerInterrupt ==
    /\ last.call # "new"
    /\ ~panicked
    /\ \E lv \in IntLevels :
          /\ cpu' = trigger_interrupt(cpu, lv)
          /\ last' = [last EXCEPT !.call = "trigger_interrupt", !.arg = lv,
                                  !.req_max = IF last.call = "trigger_interrupt" /\ last.req_max > lv
                                              THEN last.req_max ELSE lv,
                                  !.was_stopped = cpu.stopped,
                                  !.woke = \/ cpu.stopped /\ lv > cpu.sr.int_mask
                                           \/ last.call = "trigger_interrupt" /\ last.woke]
    /\ UNCHANGED <<bus, panicked, overflow_checks>>
    /\ UNCHANGED <<varsZ, varsM>>

\* cpu.step(&mut bus).  A call that panics ends the program.
Step ==
    /\ last.call # "new"
    /\ ~panicked
    /\ \E r \in {step(Mach(cpu, bus))} :
           /\ r.m.p # "unmodelled"
           /\ IF r.m.p = "panic"
              THEN /\ panicked' = TRUE
                   /\ UNCHANGED <<cpu, bus>>
              ELSE /\ panicked' = FALSE
                   /\ cpu' = r.m.c
                   /\ bus' = r.m.b
           /\ last' = [call |-> "step", arg |-> 0,
                       req_max |-> IF last.call = "trigger_interrupt"
                                   THEN last.req_max ELSE 0,
                       prev |-> last.call, parg |-> last.arg, frames |-> r.m.x,
                       uentry |-> UserEntry(last.uentry, Mach(cpu, bus), r),
                       pre |-> Mach(cpu, bus), lv |-> r.lv, mid |-> r.mid,
                       fetched |-> r.fetched, op |-> r.op, ex |-> r.ex, acks |-> r.acks,
                       fault |-> r.fault, ret |-> r.ret, was_stopped |-> FALSE,
                       woke |-> last.call = "trigger_interrupt" /\ last.woke,
                       addr |-> <<0, 0>>, val |-> <<0, 0>>, got |-> <<0, 0>>,
                       wrote |-> FALSE]
    /\ UNCHANGED overflow_checks
    /\ UNCHANGED <<varsZ, varsM>>


---------------------------------------------------------------------------
(* OxidZ80 on a flat 64 KiB RAM (the TestBus of the crate's tests).  The     *)
(* cycle tables (mod cycles) are not part of the model: the cycle counter    *)
(* is left out.                                                              *)

\* flags::S, Z, Y, H, X, P, N, C
FlagS == 128
FlagZ == 64
FlagY == 32
FlagH == 16
FlagX == 8
FlagP == 4
FlagN == 2
FlagC == 1

\* TestBus::read / TestBus::write (mem keeps the non-zero bytes)
z80_read(mem, a) == IF a \in DOMAIN mem THEN mem[a] ELSE 0
z80_write(mem, a, v) ==
    IF v = 0 THEN [x \in DOMAIN mem \ {a} |-> mem[x]]
    ELSE [x \in DOMAIN mem \cup {a} |-> IF x = a THEN v ELSE mem[x]]

ZMach(c, mem) == [c |-> c, mem |-> mem, p |-> "run"]

\* OxidZ80::new
NewZ80 ==
    [a |-> 255, f |-> 255, b |-> 0, c |-> 0, d |-> 0, e |-> 0, h |-> 0, l |-> 0,
     sp |-> 0, pc |-> 0, i |-> 0, r |-> 0, iff1 |-> FALSE, iff2 |-> FALSE, im |-> 0,
     ei_pending |-> FALSE, halted |-> FALSE]

\* refresh_r(1)
refresh_r(c) == [c EXCEPT !.r = ((c.r \div 128) * 128) + ((c.r + 1) % 128)]

\* fetch / fetch_u16: [z |-> machine after, v |-> value]
z80_fetch(z) ==
    [z |-> [z EXCEPT !.c = refresh_r([z.c EXCEPT !.pc = (z.c.pc + 1) % 65536])],
     v |-> z80_read(z.mem, z.c.pc)]
fetch_u16(z) ==
    LET lo == z80_fetch(z)
        hi == z80_fetch(lo.z)
    IN  [z |-> hi.z, v |-> (hi.v * 256) + lo.v]

\* push / pop
push(z, val) ==
    LET s1 == (z.c.sp + 65535) % 65536
        s2 == (z.c.sp + 65534) % 65536
    IN  [z EXCEPT !.c.sp = s2,
                  !.mem = z80_write(z80_write(z.mem, s1, val \div 256), s2, val % 256)]
pop(z) ==
    LET lo == z80_read(z.mem, z.c.sp)
        hi == z80_read(z.mem, (z.c.sp + 1) % 65536)
    IN  [z |-> [z EXCEPT !.c.sp = (z.c.sp + 2) % 65536], v |-> (hi * 256) + lo]

\* an opcode the model does not decode
ZUnmodelled(z) == [z EXCEPT !.p = "unmodelled"]

\* (off as i8) added to pc
JumpRel(pc, off) == (pc + (IF off >= 128 THEN off - 256 ELSE off) + 65536) % 65536

\* PARITY_TABLE: entry v + 1 is PARITY_TABLE[v]
PARITY_TABLE ==
    <<
      TRUE, FALSE, FALSE, TRUE, FALSE, TRUE, TRUE, FALSE, FALSE, TRUE, TRUE, FALSE, TRUE, FALSE, FALSE, TRUE,
      FALSE, TRUE, TRUE, FALSE, TRUE, FALSE, FALSE, TRUE, TRUE, FALSE, FALSE, TRUE, FALSE, TRUE, TRUE, FALSE,
      FALSE, TRUE, TRUE, FALSE, TRUE, FALSE, FALSE, TRUE, TRUE, FALSE, FALSE, TRUE, FALSE, TRUE, TRUE, FALSE,
      TRUE, FALSE, FALSE, TRUE, FALSE, TRUE, TRUE, FALSE, FALSE, TRUE, TRUE, FALSE, TRUE, FALSE, FALSE, TRUE,
      FALSE, TRUE, TRUE, FALSE, TRUE, FALSE, FALSE, TRUE, TRUE, FALSE, FALSE, TRUE, FALSE, TRUE, TRUE, FALSE,
      TRUE, FALSE, FALSE, TRUE, FALSE, TRUE, TRUE, FALSE, FALSE, TRUE, TRUE, FALSE, TRUE, FALSE, FALSE, TRUE,
      TRUE, FALSE, FALSE, TRUE, FALSE, TRUE, TRUE, FALSE, FALSE, TRUE, TRUE, FALSE, TRUE, FALSE, FALSE, TRUE,
      FALSE, TRUE, TRUE, FALSE, TRUE, FALSE, FALSE, TRUE, TRUE, FALSE, FALSE, TRUE, FALSE, TRUE, TRUE, FALSE,
      FALSE, TRUE, TRUE, FALSE, TRUE, FALSE, FALSE, TRUE, TRUE, FALSE, FALSE, TRUE, FALSE, TRUE, TRUE, FALSE,
      TRUE, FALSE, FALSE, TRUE, FALSE, TRUE, TRUE, FALSE, FALSE, TRUE, TRUE, FALSE, TRUE, FALSE, FALSE, TRUE,
      TRUE, FALSE, FALSE, TRUE, FALSE, TRUE, TRUE, FALSE, FALSE, TRUE, TRUE, FALSE, TRUE, FALSE, FALSE, TRUE,
      FALSE, TRUE, TRUE, FALSE, TRUE, FALSE, FALSE, TRUE, TRUE, FALSE, FALSE, TRUE, FALSE, TRUE, TRUE, FALSE,
      TRUE, FALSE, FALSE, TRUE, FALSE, TRUE, TRUE, FALSE, FALSE, TRUE, TRUE, FALSE, TRUE, FALSE, FALSE, TRUE,
      FALSE, TRUE, TRUE, FALSE, TRUE, FALSE, FALSE, TRUE, TRUE, FALSE, FALSE, TRUE, FALSE, TRUE, TRUE, FALSE,
      FALSE, TRUE, TRUE, FALSE, TRUE, FALSE, FALSE, TRUE, TRUE, FALSE, FALSE, TRUE, FALSE, TRUE, TRUE, FALSE,
      TRUE, FALSE, FALSE, TRUE, FALSE, TRUE, TRUE, FALSE, FALSE, TRUE, TRUE, FALSE, TRUE, FALSE, FALSE, TRUE
    >>

\* MemoryBus::port_in, the default the flat RAM keeps: the floating bus
port_in(port) == 255

\* add(v)
add(c, v) ==
    LET r  == (c.a + v) % 256
        h  == (c.a % 16) + (v % 16) > 15
        ov == BitAnd(BitAnd(BitXor(c.a, 255 - v), BitXor(c.a, r)), 128) # 0
    IN  [c EXCEPT !.a = r,
                  !.f = (IF r = 0 THEN FlagZ ELSE 0)
                        + BitAnd(r, 128)
                        + (IF h THEN FlagH ELSE 0)
                        + (IF ov THEN FlagP ELSE 0)
                        + (IF c.a + v > 255 THEN FlagC ELSE 0)
                        + BitAnd(r, FlagX + FlagY)]

\* sub(v)
sub(c, v) ==
    LET r  == (c.a + 256 - v) % 256
        h  == (c.a % 16) < (v % 16)
        ov == BitAnd(BitAnd(BitXor(c.a, v), BitXor(c.a, r)), 128) # 0
    IN  [c EXCEPT !.a = r,
                  !.f = FlagN
                        + (IF r = 0 THEN FlagZ ELSE 0)
                        + BitAnd(r, 128)
                        + (IF h THEN FlagH ELSE 0)
                        + (IF ov THEN FlagP ELSE 0)
                        + (IF c.a < v THEN FlagC ELSE 0)
                        + BitAnd(r, FlagX + FlagY)]

\* daa that corrects the high digit only when C is set
daa_IgnoresHighDigit(c) ==
    LET a       == c.a
        hcc     == BitAnd(c.f, FlagH) # 0
        add_sub == BitAnd(c.f, FlagN) # 0
        high    == BitAnd(c.f, FlagC) # 0
        diff    == (IF hcc \/ (a % 16) > 9 THEN 6 ELSE 0) + (IF high THEN 96 ELSE 0)
        res     == IF add_sub THEN (a + 256 - diff) % 256 ELSE (a + diff) % 256
        half    == IF add_sub THEN (a % 16) < (diff % 16) ELSE (a % 16) > 9
    IN  [c EXCEPT !.a = res,
                  !.f = (IF res = 0 THEN FlagZ ELSE 0)
                        + BitAnd(res, 128)
                        + (IF half THEN FlagH ELSE 0)
                        + (IF high THEN FlagC ELSE 0)
                        + BitAnd(c.f, FlagN)
                        + (IF PARITY_TABLE[res + 1] THEN FlagP ELSE 0)
                        + BitAnd(res, FlagX + FlagY)]

\* daa that does not look at H
daa_IgnoresHalfCarry(c) ==
    LET a       == c.a
        hcc     == BitAnd(c.f, FlagH) # 0
        add_sub == BitAnd(c.f, FlagN) # 0
        high    == BitAnd(c.f, FlagC) # 0 \/ a > 153
        diff    == (IF (a % 16) > 9 THEN 6 ELSE 0) + (IF high THEN 96 ELSE 0)
        res     == IF add_sub THEN (a + 256 - diff) % 256 ELSE (a + diff) % 256
        half    == IF add_sub THEN (a % 16) < (diff % 16) ELSE (a % 16) > 9
    IN  [c EXCEPT !.a = res,
                  !.f = (IF res = 0 THEN FlagZ ELSE 0)
                        + BitAnd(res, 128)
                        + (IF half THEN FlagH ELSE 0)
                        + (IF high THEN FlagC ELSE 0)
                        + BitAnd(c.f, FlagN)
                        + (IF PARITY_TABLE[res + 1] THEN FlagP ELSE 0)
                        + BitAnd(res, FlagX + FlagY)]

\* daa()
daa(c) ==
    LET a       == c.a
        hcc     == BitAnd(c.f, FlagH) # 0
        add_sub == BitAnd(c.f, FlagN) # 0
        high    == BitAnd(c.f, FlagC) # 0 \/ a > 153
        diff    == (IF hcc \/ (a % 16) > 9 THEN 6 ELSE 0) + (IF high THEN 96 ELSE 0)
        res     == IF add_sub THEN (a + 256 - diff) % 256 ELSE (a + diff) % 256
        half    == IF add_sub THEN (a % 16) < (diff % 16) ELSE (a % 16) > 9
    IN  [c EXCEPT !.a = res,
                  !.f = (IF res = 0 THEN FlagZ ELSE 0)
                        + BitAnd(res, 128)
                        + (IF half THEN FlagH ELSE 0)
                        + (IF high THEN FlagC ELSE 0)
                        + BitAnd(c.f, FlagN)
                        + (IF PARITY_TABLE[res + 1] THEN FlagP ELSE 0)
                        + BitAnd(res, FlagX + FlagY)]

\* ldir that leaves the flags as they were
ldir_LeavesFlags(z, repeat, by) ==
    LET hl  == (z.c.h * 256) + z.c.l
        de  == (z.c.d * 256) + z.c.e
        hl1 == (hl + 65536 + by) % 65536
        de1 == (de + 65536 + by) % 65536
        bc  == ((z.c.b * 256) + z.c.c + 65535) % 65536
        f1  == BitAnd(z.c.f, 255 - (FlagH + FlagN + FlagP))
               + (IF bc # 0 THEN FlagP ELSE 0)
    IN  [z EXCEPT !.mem = z80_write(z.mem, de, z80_read(z.mem, hl)),
                  !.c.h = hl1 \div 256, !.c.l = hl1 % 256,
                  !.c.d = de1 \div 256, !.c.e = de1 % 256,
                  !.c.b = bc \div 256, !.c.c = bc % 256,
                  !.c.f = z.c.f + (0 * f1),
                  !.c.pc = IF repeat /\ bc # 0 THEN (z.c.pc + 65534) % 65536
                           ELSE z.c.pc]

\* ldir that leaves PC past a repeating instruction whatever BC is
ldir_NoRewind(z, repeat, by) ==
    LET hl  == (z.c.h * 256) + z.c.l
        de  == (z.c.d * 256) + z.c.e
        hl1 == (hl + 65536 + by) % 65536
        de1 == (de + 65536 + by) % 65536
        bc  == ((z.c.b * 256) + z.c.c + 65535) % 65536
        f1  == BitAnd(z.c.f, 255 - (FlagH + FlagN + FlagP))
               + (IF bc # 0 THEN FlagP ELSE 0)
    IN  [z EXCEPT !.mem = z80_write(z.mem, de, z80_read(z.mem, hl)),
                  !.c.h = hl1 \div 256, !.c.l = hl1 % 256,
                  !.c.d = de1 \div 256, !.c.e = de1 % 256,
                  !.c.b = bc \div 256, !.c.c = bc % 256,
                  !.c.f = f1]

\* ldir(repeat, step): LDI, LDIR (step by = 1), LDD, LDDR (by = -1)
ldir(z, repeat, by) ==
    LET hl  == (z.c.h * 256) + z.c.l
        de  == (z.c.d * 256) + z.c.e
        hl1 == (hl + 65536 + by) % 65536
        de1 == (de + 65536 + by) % 65536
        bc  == ((z.c.b * 256) + z.c.c + 65535) % 65536
        f1  == BitAnd(z.c.f, 255 - (FlagH + FlagN + FlagP))
               + (IF bc # 0 THEN FlagP ELSE 0)
    IN  [z EXCEPT !.mem = z80_write(z.mem, de, z80_read(z.mem, hl)),
                  !.c.h = hl1 \div 256, !.c.l = hl1 % 256,
                  !.c.d = de1 \div 256, !.c.e = de1 % 256,
                  !.c.b = bc \div 256, !.c.c = bc % 256,
                  !.c.f = f1,
                  !.c.pc = IF repeat /\ bc # 0 THEN (z.c.pc + 65534) % 65536
                           ELSE z.c.pc]

\* block_in(inc, repeat): INI, INIR, IND, INDR
block_in(z, inc, repeat) ==
    LET hl  == (z.c.h * 256) + z.c.l
        hl1 == IF inc THEN (hl + 1) % 65536 ELSE (hl + 65535) % 65536
        b   == (z.c.b + 255) % 256
    IN  [z EXCEPT !.mem = z80_write(z.mem, hl, port_in((z.c.b * 256) + z.c.c)),
                  !.c.h = hl1 \div 256, !.c.l = hl1 % 256,
                  !.c.b = b,
                  !.c.f = BitAnd(z.c.f, FlagC) + FlagN + (IF b = 0 THEN FlagZ ELSE 0),
                  !.c.pc = IF repeat /\ b # 0 THEN (z.c.pc + 65534) % 65536
                           ELSE z.c.pc]

\* block_out(inc, repeat): OUTI, OTIR, OUTD, OTDR (port_out keeps nothing)
block_out(z, inc, repeat) ==
    LET hl  == (z.c.h * 256) + z.c.l
        hl1 == IF inc THEN (hl + 1) % 65536 ELSE (hl + 65535) % 65536
        b   == (z.c.b + 255) % 256
    IN  [z EXCEPT !.c.h = hl1 \div 256, !.c.l = hl1 % 256,
                  !.c.b = b,
                  !.c.f = BitAnd(z.c.f, FlagC) + FlagN + (IF b = 0 THEN FlagZ ELSE 0),
                  !.c.pc = IF repeat /\ b # 0 THEN (z.c.pc + 65534) % 65536
                           ELSE z.c.pc]

\* block_cp that repeats until BC is 0 even when the byte compares equal
block_cp_IgnoresMatch(z, inc, repeat) ==
    LET hl   == (z.c.h * 256) + z.c.l
        v    == z80_read(z.mem, hl)
        res  == (z.c.a + 256 - v) % 256
        h    == (z.c.a % 16) < (v % 16)
        hl1  == IF inc THEN (hl + 1) % 65536 ELSE (hl + 65535) % 65536
        bc   == ((z.c.b * 256) + z.c.c + 65535) % 65536
        diff == (z.c.a - v - (IF h THEN 1 ELSE 0) + 65536) % 65536
        f1   == (IF res >= 128 THEN FlagS ELSE 0)
                + (IF res = 0 THEN FlagZ ELSE 0)
                + (IF h THEN FlagH ELSE 0)
                + (IF bc # 0 THEN FlagP ELSE 0)
                + FlagN
                + BitAnd(z.c.f, FlagC)
                + (IF BitAnd(diff, 2) # 0 THEN FlagY ELSE 0)
                + (IF BitAnd(diff, 8) # 0 THEN FlagX ELSE 0)
    IN  [z EXCEPT !.c.h = hl1 \div 256, !.c.l = hl1 % 256,
                  !.c.b = bc \div 256, !.c.c = bc % 256,
                  !.c.f = f1,
                  !.c.pc = IF repeat /\ bc # 0
                           THEN (z.c.pc + 65534) % 65536
                           ELSE z.c.pc]

\* block_cp(inc, repeat): CPI, CPIR, CPD, CPDR
block_cp(z, inc, repeat) ==
    LET hl   == (z.c.h * 256) + z.c.l
        v    == z80_read(z.mem, hl)
        res  == (z.c.a + 256 - v) % 256
        h    == (z.c.a % 16) < (v % 16)
        hl1  == IF inc THEN (hl + 1) % 65536 ELSE (hl + 65535) % 65536
        bc   == ((z.c.b * 256) + z.c.c + 65535) % 65536
        diff == (z.c.a - v - (IF h THEN 1 ELSE 0) + 65536) % 65536
        f1   == (IF res >= 128 THEN FlagS ELSE 0)
                + (IF res = 0 THEN FlagZ ELSE 0)
                + (IF h THEN FlagH ELSE 0)
                + (IF bc # 0 THEN FlagP ELSE 0)
                + FlagN
                + BitAnd(z.c.f, FlagC)
                + (IF BitAnd(diff, 2) # 0 THEN FlagY ELSE 0)
                + (IF BitAnd(diff, 8) # 0 THEN FlagX ELSE 0)
    IN  [z EXCEPT !.c.h = hl1 \div 256, !.c.l = hl1 % 256,
                  !.c.b = bc \div 256, !.c.c = bc % 256,
                  !.c.f = f1,
                  !.c.pc = IF repeat /\ bc # 0 /\ res # 0
                           THEN (z.c.pc + 65534) % 65536
                           ELSE z.c.pc]

\* exec_normal(opcode)
exec_normal(z, opcode) ==
    CASE opcode = 0 -> z                                              \* NOP
      [] opcode = 118 -> [z EXCEPT !.c.halted = TRUE]                 \* HALT
      [] opcode = 62 ->                                               \* LD A,n
            LET f == z80_fetch(z) IN [f.z EXCEPT !.c.a = f.v]
      [] opcode = 6 ->                                                \* LD B,n
            LET f == z80_fetch(z) IN [f.z EXCEPT !.c.b = f.v]
      [] opcode = 1 ->                                                \* LD BC,nn
            LET f == fetch_u16(z)
            IN  [f.z EXCEPT !.c.b = f.v \div 256, !.c.c = f.v % 256]
      [] opcode = 17 ->                                               \* LD DE,nn
            LET f == fetch_u16(z)
            IN  [f.z EXCEPT !.c.d = f.v \div 256, !.c.e = f.v % 256]
      [] opcode = 33 ->                                               \* LD HL,nn
            LET f == fetch_u16(z)
            IN  [f.z EXCEPT !.c.h = f.v \div 256, !.c.l = f.v % 256]
      [] opcode = 49 ->                                               \* LD SP,nn
            LET f == fetch_u16(z) IN [f.z EXCEPT !.c.sp = f.v]
      [] opcode = 198 ->                                              \* ADD A,n
            LET f == z80_fetch(z) IN [f.z EXCEPT !.c = add(f.z.c, f.v)]
      [] opcode = 214 ->                                              \* SUB n
            LET f == z80_fetch(z) IN [f.z EXCEPT !.c = sub(f.z.c, f.v)]
      [] opcode = 39 -> [z EXCEPT !.c = daa(z.c)]                     \* DAA
      [] opcode = 195 ->                                              \* JP nn
            LET f == fetch_u16(z) IN [f.z EXCEPT !.c.pc = f.v]
      [] opcode = 24 ->                                               \* JR e
            LET f == z80_fetch(z) IN [f.z EXCEPT !.c.pc = JumpRel(f.z.c.pc, f.v)]
      [] opcode = 205 ->                                              \* CALL nn
            LET f == fetch_u16(z) IN [push(f.z, f.z.c.pc) EXCEPT !.c.pc = f.v]
      [] opcode = 201 ->                                              \* RET
            LET q == pop(z) IN [q.z EXCEPT !.c.pc = q.v]
      [] opcode \in {199, 207, 215, 223, 231, 239, 247, 255} ->       \* RST
            [push(z, z.c.pc) EXCEPT !.c.pc = opcode - 199]
      [] opcode = 243 -> [z EXCEPT !.c.iff1 = FALSE, !.c.iff2 = FALSE] \* DI
      [] opcode = 251 -> [z EXCEPT !.c.ei_pending = TRUE]             \* EI
      [] OTHER -> ZUnmodelled(z)

\* the flags of LD A,I and LD A,R
LdAirFlags(c) ==
    BitAnd(c.f, FlagC)
    + (IF c.a = 0 THEN FlagZ ELSE 0)
    + (IF c.a >= 128 THEN FlagS ELSE 0)
    + (IF c.iff2 THEN FlagP ELSE 0)
    + BitAnd(c.a, FlagX + FlagY)

\* exec_ed
exec_ed(z) ==
    LET f  == z80_fetch(z)
        op == f.v
        z1 == f.z
    IN  CASE op \in {70, 78, 102, 110} -> [z1 EXCEPT !.c.im = 0]
          [] op \in {86, 118} -> [z1 EXCEPT !.c.im = 1]
          [] op \in {94, 126} -> [z1 EXCEPT !.c.im = 2]
          [] op = 71 -> [z1 EXCEPT !.c.i = z1.c.a]                    \* LD I,A
          [] op = 79 -> [z1 EXCEPT !.c.r = z1.c.a]                    \* LD R,A
          [] op = 87 ->                                               \* LD A,I
                LET c1 == [z1.c EXCEPT !.a = z1.c.i]
                IN  [z1 EXCEPT !.c = [c1 EXCEPT !.f = LdAirFlags(c1)]]
          [] op = 95 ->                                               \* LD A,R
                LET c1 == [z1.c EXCEPT !.a = z1.c.r]
                IN  [z1 EXCEPT !.c = [c1 EXCEPT !.f = LdAirFlags(c1)]]
          [] op = 176 -> ldir(z1, TRUE, 1)                            \* LDIR
          [] op = 160 -> ldir(z1, FALSE, 1)                           \* LDI
          [] op = 184 -> ldir(z1, TRUE, -1)                           \* LDDR
          [] op = 168 -> ldir(z1, FALSE, -1)                          \* LDD
          [] op = 162 -> block_in(z1, TRUE, FALSE)                    \* INI
          [] op = 178 -> block_in(z1, TRUE, TRUE)                     \* INIR
          [] op = 170 -> block_in(z1, FALSE, FALSE)                   \* IND
          [] op = 186 -> block_in(z1, FALSE, TRUE)                    \* INDR
          [] op = 163 -> block_out(z1, TRUE, FALSE)                   \* OUTI
          [] op = 179 -> block_out(z1, TRUE, TRUE)                    \* OTIR
          [] op = 171 -> block_out(z1, FALSE, FALSE)                  \* OUTD
          [] op = 187 -> block_out(z1, FALSE, TRUE)                   \* OTDR
          [] op = 161 -> block_cp(z1, TRUE, FALSE)                    \* CPI
          [] op = 177 -> block_cp(z1, TRUE, TRUE)                     \* CPIR
          [] op = 169 -> block_cp(z1, FALSE, FALSE)                   \* CPD
          [] op = 185 -> block_cp(z1, FALSE, TRUE)                    \* CPDR
          [] op \in {77, 93, 109, 125} ->                             \* RETI
                LET q == pop(z1) IN [q.z EXCEPT !.c.pc = q.v]
          [] op \in {69, 85, 101, 117} ->                             \* RETN
                LET q == pop(z1) IN [q.z EXCEPT !.c.pc = q.v, !.c.iff1 = q.z.c.iff2]
          [] OTHER -> ZUnmodelled(z1)

\* OxidZ80::step: [z |-> machine after, mid |-> the registers at the opcode
\* fetch, fetched, op |-> the opcode, ret |-> 4 when halted]
z80_step(z) ==
    IF z.c.halted
    THEN [z |-> z, mid |-> z.c, fetched |-> FALSE, op |-> 0]
    ELSE LET z1 == IF z.c.ei_pending
                   THEN [z EXCEPT !.c.iff1 = TRUE, !.c.iff2 = TRUE, !.c.ei_pending = FALSE]
                   ELSE z
             f  == z80_fetch(z1)
             z2 == CASE f.v = 237 -> exec_ed([f.z EXCEPT !.c = refresh_r(f.z.c)])
                     [] f.v \in {203, 221, 253} -> ZUnmodelled(f.z)
                     [] OTHER -> exec_normal(f.z, f.v)
         IN  [z |-> z2, mid |-> z1.c, fetched |-> TRUE, op |-> f.v]

\* nmi
nmi(z) ==
    LET c1 == [z.c EXCEPT !.halted = FALSE, !.iff2 = z.c.iff1, !.iff1 = FALSE]
    IN  [push([z EXCEPT !.c = c1], c1.pc) EXCEPT !.c.pc = 102]

\* irq that brings the CPU out of HALT before it tests IFF1
irq_WakesWhenDisabled(z, data_bus) ==
    IF ~z.c.iff1 THEN [z EXCEPT !.c.halted = FALSE]
    ELSE LET z1 == [z EXCEPT !.c.halted = FALSE, !.c.iff1 = FALSE, !.c.iff2 = FALSE]
         IN  CASE z1.c.im = 0 -> exec_normal(z1, data_bus)
               [] z1.c.im = 1 -> [push(z1, z1.c.pc) EXCEPT !.c.pc = 56]
               [] z1.c.im = 2 ->
                    LET z2 == push(z1, z1.c.pc)
                        va == (z2.c.i * 256) + data_bus
                        lo == z80_read(z2.mem, va)
                        hi == z80_read(z2.mem, (va + 1) % 65536)
                    IN  [z2 EXCEPT !.c.pc = (hi * 256) + lo]
               [] OTHER -> z1

\* irq(data_bus): the value returned
irq_cycles(c) ==
    IF ~c.iff1 THEN 0
    ELSE CASE c.im = 0 -> 13
           [] c.im = 1 -> 13
           [] c.im = 2 -> 19
           [] OTHER -> 0

\* irq(data_bus)
irq(z, data_bus) ==
    IF ~z.c.iff1 THEN z
    ELSE LET z1 == [z EXCEPT !.c.halted = FALSE, !.c.iff1 = FALSE, !.c.iff2 = FALSE]
         IN  CASE z1.c.im = 0 -> exec_normal(z1, data_bus)
               [] z1.c.im = 1 -> [push(z1, z1.c.pc) EXCEPT !.c.pc = 56]
               [] z1.c.im = 2 ->
                    LET z2 == push(z1, z1.c.pc)
                        va == (z2.c.i * 256) + data_bus
                        lo == z80_read(z2.mem, va)
                        hi == z80_read(z2.mem, (va + 1) % 65536)
                    IN  [z2 EXCEPT !.c.pc = (hi * 256) + lo]
               [] OTHER -> z1

---------------------------------------------------------------------------
(* The Z80 host: it loads a program into RAM, then steps the CPU and raises  *)
(* the INT and NMI lines between steps.                                      *)

\* the most NMIs the host raises in one run
MaxNmi == 1

\* the most times the host raises the INT line in one run
MaxIrq == 2

\* the bytes the interrupting device puts on the data bus (0xFF in
\* oxid_master and oxid_spec main.rs; 0xFE, the same byte with bit 0 clear)
DataBus == {254, 255}

\* 0000 LD SP,$8000; IM im; LD A,$81; LD I,A; EI; LD A,I; DI; op13; op14;
\* 000F HALT; DI; HALT; JR $0011        0038 EI; RETI        0066 RETN
\* 81FE the mode-2 vector table: $0038 at $81FE, $00 at $8200
ZProgram(im_op, op13, op14) ==
    [a \in {x \in {13, 14} : (IF x = 13 THEN op13 ELSE op14) # 0}
        |-> IF a = 13 THEN op13 ELSE op14]
    @@ (0 :> 49) @@ (2 :> 128) @@ (3 :> 237) @@ (4 :> im_op) @@ (5 :> 62) @@ (6 :> 129)
    @@ (7 :> 237) @@ (8 :> 71) @@ (9 :> 251) @@ (10 :> 237) @@ (11 :> 87) @@ (12 :> 243)
    @@ (15 :> 118) @@ (16 :> 243) @@ (17 :> 118) @@ (18 :> 24) @@ (19 :> 253)
    @@ (56 :> 251) @@ (57 :> 237) @@ (58 :> 77) @@ (102 :> 237) @@ (103 :> 69)
    @@ (33278 :> 56)

\* IM 0, IM 1 and IM 2 with "EI; NOP" before the first HALT; IM 1 with
\* "EI; EI"
ZPrograms ==
    {ZProgram(70, 251, 0), ZProgram(86, 251, 0), ZProgram(94, 251, 0),
     ZProgram(86, 251, 251)}

\* what the model remembers of the calls made so far: call / data, the last
\* call; nmis / irqs, the NMIs and INTs raised; pre, the registers it started from; ret, the
\* value it returned (-1: a step that executes, whose count comes from the
\* cycle tables); mem_same, it left the RAM as it was; prev / ppre, the call
\* before it and the registers that one started from; of a step: mid, the
\* registers at the opcode fetch; fetched / op, the opcode fetch;
\* ei_from_di, it executed EI with IFF1 = IFF2 = 0; after_ei, the step
\* before it did; pei, the call before it was a step that executed EI;
\* reps, the steps in a row, this one included, that fetched their opcode at
\* the same PC; entry / emem, the registers and the RAM at the opcode fetch of
\* the first of them; blk, the LDIR under way: on, it has started and not
\* ended; fresh, the step just made was one of its iterations; done, the step
\* just made ended it; entry / emem, the registers and the RAM at its first
\* opcode fetch; irqs, the INTs accepted since
NoBlk == [on |-> FALSE, fresh |-> FALSE, done |-> FALSE, entry |-> NewZ80, emem |-> <<>>,
          irqs |-> 0]
\* blk after the step with trace r, made from the RAM mem
BlkStep(blk, r, mem) ==
    IF r.fetched /\ r.op = 237 /\ z80_read(mem, (r.mid.pc + 1) % 65536) = 176
    THEN [on |-> r.z.c.b + r.z.c.c # 0, fresh |-> r.z.c.b + r.z.c.c # 0,
          done |-> r.z.c.b + r.z.c.c = 0,
          entry |-> IF blk.on THEN blk.entry ELSE r.mid,
          emem |-> IF blk.on THEN blk.emem ELSE mem,
          irqs |-> IF blk.on THEN blk.irqs ELSE 0]
    ELSE [blk EXCEPT !.fresh = FALSE, !.done = FALSE]
NoZCall ==
    [call |-> "new", data |-> 0, nmis |-> 0, irqs |-> 0, pre |-> NewZ80, mid |-> NewZ80,
     fetched |-> FALSE, op |-> 0, ei_from_di |-> FALSE, after_ei |-> FALSE,
     pei |-> FALSE, ret |-> 0, mem_same |-> TRUE, prev |-> "new", ppre |-> NewZ80,
     reps |-> 0, entry |-> NewZ80, emem |-> <<>>, blk |-> NoBlk]

\* the call before was a step that fetched its opcode where this one does
SamePc(mid) == zlast.call = "step" /\ zlast.fetched /\ zlast.mid.pc = mid.pc

InitZ ==
    /\ z80 = NewZ80
    /\ zmem \in ZPrograms
    /\ zlast = NoZCall

\* cpu.step(&mut bus)
ZStep ==
    LET r == z80_step(ZMach(z80, zmem))
    IN  /\ UNCHANGED <<vars68, varsM>>
        /\ r.z.p # "unmodelled"
        /\ z80' = r.z.c
        /\ zmem' = r.z.mem
        /\ zlast' = [call |-> "step", data |-> 0, nmis |-> zlast.nmis,
                     irqs |-> zlast.irqs, pre |-> z80,
                     mid |-> r.mid, fetched |-> r.fetched, op |-> r.op,
                     ei_from_di |-> r.fetched /\ r.op = 251 /\ ~r.mid.iff1 /\ ~r.mid.iff2,
                     after_ei |-> zlast.call = "step" /\ zlast.ei_from_di,
                     pei |-> zlast.call = "step" /\ zlast.fetched /\ zlast.op = 251,
                     ret |-> IF r.fetched THEN -1 ELSE 4, mem_same |-> r.z.mem = zmem,
                     prev |-> zlast.call, ppre |-> zlast.pre,
                     reps |-> IF ~r.fetched THEN 0
                              ELSE IF SamePc(r.mid) THEN zlast.reps + 1 ELSE 1,
                     entry |-> IF r.fetched /\ SamePc(r.mid) THEN zlast.entry ELSE r.mid,
                     emem |-> IF r.fetched /\ SamePc(r.mid) THEN zlast.emem ELSE zmem,
                     blk |-> BlkStep(zlast.blk, r, zmem)]

\* cpu.irq(&mut bus, data_bus)
ZIrq ==
    \E data_bus \in DataBus :
        LET z == irq(ZMach(z80, zmem), data_bus)
        IN  /\ UNCHANGED <<vars68, varsM>>
            /\ zlast.irqs < MaxIrq
            /\ z.p # "unmodelled"
            /\ z80' = z.c
            /\ zmem' = z.mem
            /\ zlast' = [call |-> "irq", data |-> data_bus, nmis |-> zlast.nmis,
                         irqs |-> zlast.irqs + 1,
                         pre |-> z80, mid |-> z80,
                         fetched |-> FALSE, op |-> 0,
                         ei_from_di |-> FALSE, after_ei |-> FALSE,
                         pei |-> zlast.call = "step" /\ zlast.fetched /\ zlast.op = 251,
                         ret |-> irq_cycles(z80), mem_same |-> z.mem = zmem,
                         prev |-> zlast.call, ppre |-> zlast.pre,
                         reps |-> 0, entry |-> z80, emem |-> zmem,
                         blk |-> IF zlast.blk.on /\ z80.iff1
                                 THEN [zlast.blk EXCEPT !.irqs = @ + 1]
                                 ELSE zlast.blk]

\* cpu.nmi(&mut bus)
ZNmi ==
    /\ zlast.nmis < MaxNmi
    /\ UNCHANGED <<vars68, varsM>>
    /\ LET z == nmi(ZMach(z80, zmem))
       IN  /\ z80' = z.c
           /\ zmem' = z.mem
           /\ zlast' = [NoZCall EXCEPT !.call = "nmi", !.nmis = zlast.nmis + 1,
                                       !.irqs = zlast.irqs,
                                       !.pre = z80, !.mid = z80, !.ret = 11,
                                       !.mem_same = (z.mem = zmem),
                                       !.prev = zlast.call, !.ppre = zlast.pre,
                                       !.entry = z80, !.emem = zmem,
                                       !.blk = zlast.blk]


---------------------------------------------------------------------------
(* The Sega Master System: MasterSystemBus and its Vdp                       *)
(* (crates/systems/oxid_master).  The Z80 appears as the bus accesses and    *)
(* port accesses its instructions make; memories are sparse (default 0).     *)
(* The ROM is a length and a pattern: byte i holds its 16 KiB bank number in *)
(* the high nibble and i mod 16 in the low one.  Addresses and ports are the *)
(* 16-bit values the Z80 puts on the bus.                                    *)

\* an array of bytes, all 0 but for the entries kept
ArrGet(arr, i) == IF i \in DOMAIN arr THEN arr[i] ELSE 0
ArrSet(arr, i, v) ==
    IF v = 0 THEN [x \in DOMAIN arr \ {i} |-> arr[x]]
    ELSE [x \in DOMAIN arr \cup {i} |-> IF x = i THEN v ELSE arr[x]]

\* STATUS_VBLANK
STATUS_VBLANK == 128

\* Vdp::new
NewVdp ==
    [vram |-> <<>>, cram |-> <<>>, regs |-> [i \in 0..15 |-> 0], status |-> 0,
     address |-> 0, code |-> 0, read_buffer |-> 0, address_latch |-> FALSE,
     line_counter |-> 0, interrupt_pending |-> FALSE]

\* tick_scanline(y)
tick_scanline(v, y) ==
    LET v1 == IF y < 192
              THEN IF v.line_counter = 0
                   THEN [v EXCEPT !.line_counter = v.regs[10], !.interrupt_pending = TRUE]
                   ELSE [v EXCEPT !.line_counter = v.line_counter - 1]
              ELSE [v EXCEPT !.line_counter = v.regs[10]]
    IN  IF y = 192 THEN [v1 EXCEPT !.status = BitOr(v1.status, STATUS_VBLANK)] ELSE v1

\* is_interrupting
is_interrupting(v) ==
    \/ BitAnd(v.status, STATUS_VBLANK) # 0 /\ BitAnd(v.regs[1], 32) # 0
    \/ v.interrupt_pending /\ BitAnd(v.regs[0], 16) # 0

\* write_control(val)
write_control(v, val) ==
    IF ~v.address_latch
    THEN [v EXCEPT !.address = BitOr(BitAnd(v.address, 65280), val),
                   !.address_latch = TRUE]
    ELSE LET addr == BitOr(BitAnd(v.address, 255), BitAnd(val, 63) * 256)
             code == BitAnd(val \div 64, 3)
             v1   == [v EXCEPT !.address = addr, !.code = code, !.address_latch = FALSE,
                               !.read_buffer = IF code # 2
                                               THEN ArrGet(v.vram, BitAnd(addr, 16383))
                                               ELSE v.read_buffer]
         IN  CASE code = 0 -> [v1 EXCEPT !.address = BitAnd((addr + 1) % 65536, 16383)]
               [] code = 2 -> [v1 EXCEPT !.regs[BitAnd(val, 15)] = BitAnd(addr, 255)]
               [] OTHER    -> v1

\* write_data that leaves the address latch as it is
write_data_KeepsLatch(v, val) ==
    LET v1 == [v EXCEPT !.read_buffer = val]
        v2 == IF v1.code <= 2
              THEN [v1 EXCEPT !.vram = ArrSet(v1.vram, BitAnd(v1.address, 16383), val)]
              ELSE [v1 EXCEPT !.cram = ArrSet(v1.cram, BitAnd(v1.address, 31), val)]
    IN  [v2 EXCEPT !.address = BitAnd((v2.address + 1) % 65536, 16383)]

\* write_data(val)
write_data(v, val) ==
    LET v1 == [v EXCEPT !.address_latch = FALSE, !.read_buffer = val]
        v2 == IF v1.code <= 2
              THEN [v1 EXCEPT !.vram = ArrSet(v1.vram, BitAnd(v1.address, 16383), val)]
              ELSE [v1 EXCEPT !.cram = ArrSet(v1.cram, BitAnd(v1.address, 31), val)]
    IN  [v2 EXCEPT !.address = BitAnd((v2.address + 1) % 65536, 16383)]

\* read_data: [vdp |-> the VDP after, v |-> the byte returned]
read_data(v) ==
    [vdp |-> [v EXCEPT !.address_latch = FALSE,
                       !.read_buffer = ArrGet(v.vram, BitAnd(v.address, 16383)),
                       !.address = BitAnd((v.address + 1) % 65536, 16383)],
     v |-> v.read_buffer]

\* read_status that leaves the line-interrupt request pending
read_status_KeepsLine(v) ==
    [vdp |-> [v EXCEPT !.status = BitAnd(v.status, 31), !.address_latch = FALSE],
     v |-> v.status]

\* read_status: [vdp |-> the VDP after, v |-> the byte returned]
read_status(v) ==
    [vdp |-> [v EXCEPT !.status = BitAnd(v.status, 31), !.interrupt_pending = FALSE,
                       !.address_latch = FALSE],
     v |-> v.status]

\* rom.len().next_power_of_two(), found from p up
RECURSIVE NextPowerOfTwo(_, _)
NextPowerOfTwo(n, p) == IF p >= n THEN p ELSE NextPowerOfTwo(n, 2 * p)

\* the byte of the ROM image at index i
RomData(i) == (((i \div 16384) % 16) * 16) + (i % 16)

\* MasterSystemBus::new(rom); paged_rom[k] of the source is paged_rom[k + 1]
NewSmsBus(rom) ==
    [rom |-> rom, ram |-> <<>>, vdp |-> NewVdp, paged_rom |-> <<0, 16384, 32768>>,
     rom_mask |-> IF rom.len > 0 THEN NextPowerOfTwo(rom.len, 1) - 1 ELSE 0,
     joypad |-> 255, joypad_2 |-> 255, v_counter |-> 0, h_counter |-> 0]

\* write_mapper(address, value)
write_mapper(b, address, value) ==
    LET bank_addr == BitAnd(value * 16384, b.rom_mask)
    IN  CASE address = 65533 -> [b EXCEPT !.paged_rom[1] = bank_addr]
          [] address = 65534 -> [b EXCEPT !.paged_rom[2] = bank_addr]
          [] address = 65535 -> [b EXCEPT !.paged_rom[3] = bank_addr]
          [] OTHER           -> b

\* self.rom[i]: the byte, or the panic of an index outside the vector
RomAt(b, i) ==
    IF i < b.rom.len THEN [v |-> RomData(i), idx |-> i, p |-> "run"]
    ELSE [v |-> 0, idx |-> i, p |-> "panic"]
\* a byte read without indexing the ROM
NoRomRead(v) == [v |-> v, idx |-> -1, p |-> "run"]

\* MemoryBus::read(address): [v |-> byte, idx |-> the ROM index used (-1:
\* none), p |-> "run", or "panic" when the index is outside the ROM]
sms_read(b, address) ==
    LET a == BitAnd(address, 65535)
    IN  CASE a <= 1023 ->
               IF b.rom.len = 0 THEN NoRomRead(255)
               ELSE RomAt(b, BitAnd(address, b.rom_mask))
          [] a >= 1024 /\ a <= 16383 ->
               IF b.rom.len = 0 THEN NoRomRead(255)
               ELSE RomAt(b, BitAnd(b.paged_rom[1] + BitAnd(address, 16383), b.rom_mask))
          [] a >= 16384 /\ a <= 32767 ->
               IF b.rom.len = 0 THEN NoRomRead(255)
               ELSE RomAt(b, BitAnd(b.paged_rom[2] + BitAnd(address, 16383), b.rom_mask))
          [] a >= 32768 /\ a <= 49151 ->
               IF b.rom.len = 0 THEN NoRomRead(255)
               ELSE RomAt(b, BitAnd(b.paged_rom[3] + BitAnd(address, 16383), b.rom_mask))
          [] OTHER -> NoRomRead(ArrGet(b.ram, BitAnd(address, 8191)))

\* MemoryBus::write(address, value)
sms_write(b, address, value) ==
    LET a == BitAnd(address, 65535)
    IN  CASE a <= 49151 -> b
          [] a >= 49152 /\ a <= 57343 ->
               [b EXCEPT !.ram = ArrSet(b.ram, BitAnd(address, 8191), value)]
          [] OTHER ->
               LET b1 == [b EXCEPT !.ram = ArrSet(b.ram, BitAnd(address, 8191), value)]
               IN  IF address >= 65532 THEN write_mapper(b1, address, value) ELSE b1

\* MemoryBus::port_in(port): [b |-> the bus after, v |-> the byte returned]
sms_port_in(b, port) ==
    LET p == BitAnd(port, 255)
    IN  CASE p = 126 -> [b |-> b, v |-> b.v_counter]
          [] p = 127 -> [b |-> b, v |-> b.h_counter]
          [] p >= 128 /\ p <= 191 ->
               IF BitAnd(p, 1) = 0
               THEN [b |-> [b EXCEPT !.vdp = read_data(b.vdp).vdp], v |-> read_data(b.vdp).v]
               ELSE [b |-> [b EXCEPT !.vdp = read_status(b.vdp).vdp],
                     v |-> read_status(b.vdp).v]
          [] p >= 192 /\ p <= 223 ->
               [b |-> b, v |-> IF BitAnd(p, 1) = 0 THEN b.joypad ELSE b.joypad_2]
          [] OTHER -> [b |-> b, v |-> 255]

\* MemoryBus::port_out(port, value)
sms_port_out(b, port, value) ==
    LET p == BitAnd(port, 255)
    IN  CASE p = 126 \/ p = 127 -> b
          [] p >= 128 /\ p <= 191 ->
               IF BitAnd(p, 1) = 0
               THEN [b EXCEPT !.vdp = write_data(b.vdp, value)]
               ELSE [b EXCEPT !.vdp = write_control(b.vdp, value)]
          [] OTHER -> b

---------------------------------------------------------------------------
(* The Master System host (oxid_master main.rs): it builds the bus around    *)
(* the ROM; the Z80 it steps reads and writes memory and ports; after each   *)
(* scanline's steps it sets the V counter and ticks the VDP.                 *)

\* the most control-port writes and data-port accesses of one run
MaxCtl == 3
MaxData == 2

\* what the model remembers of the accesses made so far: call, the last one;
\* addr / val, its address or port and the byte written or returned; idx,
\* the ROM index a read used; panicked, it panicked (the process aborted);
\* y, the scanline the host's loop is at; ctls / datas, the control-port
\* writes and the data-port accesses made; irq, is_interrupting() as the
\* host saw it after the tick; pre, the VDP before the call
NoSmsCall ==
    [call |-> "new", addr |-> 0, val |-> 0, idx |-> -1, panicked |-> FALSE, y |-> 0,
     ctls |-> 0, datas |-> 0, irq |-> FALSE, pre |-> NewVdp]

\* the machine as built around no ROM, never used
IdleM == sms = NewSmsBus([len |-> 0]) /\ slast = NoSmsCall

\* bus.read(address)
SmsRead(addrs) ==
    /\ ~slast.panicked
    /\ \E a \in addrs :
          \E r \in {sms_read(sms, a)} :
              slast' = [slast EXCEPT !.call = "read", !.addr = a, !.val = r.v,
                                     !.idx = r.idx, !.panicked = (r.p = "panic"),
                                     !.pre = sms.vdp]
    /\ UNCHANGED sms
    /\ UNCHANGED <<vars68, varsZ>>

\* bus.write(address, value)
SmsWrite(addrs, vals) ==
    /\ ~slast.panicked
    /\ \E a \in addrs, v \in vals :
          /\ sms' = sms_write(sms, a, v)
          /\ slast' = [slast EXCEPT !.call = "write", !.addr = a, !.val = v, !.idx = -1,
                                    !.pre = sms.vdp]
    /\ UNCHANGED <<vars68, varsZ>>

\* the VDP ports: 0xBE data, 0xBF control / status
DataPort == 190
ControlPort == 191

\* bus.port_in(port)
SmsPortIn(ports) ==
    /\ ~slast.panicked
    /\ \E port \in ports :
          /\ port = DataPort => slast.datas < MaxData
          /\ sms' = sms_port_in(sms, port).b
          /\ slast' = [slast EXCEPT !.call = "port_in", !.addr = port,
                                    !.val = sms_port_in(sms, port).v, !.idx = -1,
                                    !.datas = IF port = DataPort THEN @ + 1 ELSE @,
                                    !.pre = sms.vdp]
    /\ UNCHANGED <<vars68, varsZ>>

\* bus.port_out(port, value)
SmsPortOut(ports, vals) ==
    /\ ~slast.panicked
    /\ \E port \in ports, v \in vals :
          /\ port = DataPort => slast.datas < MaxData
          /\ port = ControlPort => slast.ctls < MaxCtl
          /\ sms' = sms_port_out(sms, port, v)
          /\ slast' = [slast EXCEPT !.call = "port_out", !.addr = port, !.val = v,
                                    !.idx = -1,
                                    !.datas = IF port = DataPort THEN @ + 1 ELSE @,
                                    !.ctls = IF port = ControlPort THEN @ + 1 ELSE @,
                                    !.pre = sms.vdp]
    /\ UNCHANGED <<vars68, varsZ>>

\* the end of a scanline in main's `for y in 0..262`: the V counter, then
\* bus.vdp.tick_scanline(y) and the test of is_interrupting()
TickScanline ==
    /\ ~slast.panicked
    /\ LET y  == slast.y
           b1 == [sms EXCEPT !.v_counter = IF y <= 218 THEN y ELSE (y - 6) % 256]
           b2 == [b1 EXCEPT !.vdp = tick_scanline(b1.vdp, y)]
       IN  /\ sms' = b2
           /\ slast' = [slast EXCEPT !.call = "tick_scanline", !.addr = y, !.val = 0,
                                     !.idx = -1, !.y = (y + 1) % 262,
                                     !.irq = is_interrupting(b2.vdp), !.pre = sms.vdp]
    /\ UNCHANGED <<vars68, varsZ>>

---------------------------------------------------------------------------
(* The specifications: the 68000 on the Macintosh bus, the Z80 on the flat   *)
(* RAM, the Master System bus.  Each leaves the other machines as built.     *)

IdleZ == z80 = NewZ80 /\ zmem = <<>> /\ zlast = NoZCall
Idle68 ==
    /\ cpu = NewCpu
    /\ bus = NewBus(CHOOSE r \in Roms : TRUE)
    /\ panicked = FALSE
    /\ overflow_checks = FALSE
    /\ last = NoCall

\* the 68000 running a program with operands, no interrupt requested
MaxCount == 12
BcdSample == {0, 1, 9, 69, 85, 153}
OrBRoms ==
    {[img |-> 9, ssp |-> <<1, 0>>, pcv |-> <<0, 448>>, arg |-> <<x, y, md>>] :
        x \in {15, 85}, y \in {0, 17, 240}, md \in {2, 3, 4}}
DbfRoms ==
    {[img |-> 10, ssp |-> <<1, 0>>, pcv |-> <<0, 448>>, arg |-> <<k>>] : k \in 0..MaxCount}
BcdRoms ==
    {[img |-> 11, ssp |-> <<1, 0>>, pcv |-> <<0, 448>>, arg |-> <<d0, s0, d1, s1, x, sb>>] :
        d0 \in BcdSample, s0 \in BcdSample, d1 \in BcdSample, s1 \in BcdSample,
        x \in {0, 1}, sb \in {0, 1}}
InitRoms(roms) ==
    /\ cpu = NewCpu
    /\ \E r \in roms : bus = NewBus(r)
    /\ panicked = FALSE
    /\ overflow_checks = FALSE
    /\ last = [NoCall EXCEPT !.pre = Mach(cpu, bus), !.mid = Mach(cpu, bus),
                             !.ex = Mach(cpu, bus)]
    /\ IdleZ
    /\ IdleM
InitRun68 == InitRoms(OrBRoms \cup BcdRoms)
NextRun68 == ResetWithBus \/ Step
SpecRun68 == InitRun68 /\ [][NextRun68]_vars

\* The host's loop: it resets the CPU and calls step again and again, until
\* the CPU has stopped.  This is weak fairness of NextRun68 with its
\* enabling condition (the CPU has not stopped) written out.
Stopped68 == cpu.stopped \/ cpu.halted \/ panicked
HostRuns68 == []<>Stopped68 \/ []<><<NextRun68>>_vars

\* the DBF loops, the host running
InitDbf == InitRoms(DbfRoms)
SpecDbf == InitDbf /\ [][NextRun68]_vars /\ HostRuns68

\* The big-endian helpers of MemoryBus on the Macintosh bus: the host writes
\* longs and reads them back.  last.arg counts the writes; addr / val, the
\* last write; got, what the last read returned; wrote, the read followed a
\* write to the same address.
MaxWrites == 2
BusAddrs == {<<0, 0>>, <<0, 36864>>, <<7, 65534>>, <<63, 65534>>, <<64, 0>>, <<65535, 65534>>}
BusLongs == {<<0, 0>>, <<4660, 22136>>, <<32768, 1>>, <<65535, 65280>>}
InitBus == InitRoms({[img |-> 1, ssp |-> <<1, 0>>, pcv |-> <<0, 448>>]})
WriteU32Be ==
    /\ last.call \in {"new", "write_u32_be", "read_u32_be"}
    /\ last.arg < MaxWrites
    /\ \E a \in BusAddrs, v \in BusLongs :
          /\ bus' = write_u32_be(bus, a, v)
          /\ last' = [last EXCEPT !.call = "write_u32_be", !.arg = last.arg + 1,
                                  !.addr = a, !.val = v, !.wrote = FALSE]
    /\ UNCHANGED <<cpu, panicked, overflow_checks>>
    /\ UNCHANGED <<varsZ, varsM>>
ReadU32Be ==
    /\ last.call = "write_u32_be"
    /\ \E a \in BusAddrs :
          /\ bus' = read_u32_be(bus, a).b
          /\ last' = [last EXCEPT !.call = "read_u32_be", !.got = read_u32_be(bus, a).v,
                                  !.wrote = (a = last.addr)]
    /\ UNCHANGED <<cpu, panicked, overflow_checks>>
    /\ UNCHANGED <<varsZ, varsM>>
NextBus == WriteU32Be \/ ReadU32Be
SpecBus == InitBus /\ [][NextBus]_vars

\* The Master System bus: ROMs of several lengths, the Z80 reading the ROM
\* and RAM windows and writing RAM and the mapper registers
RomLens == {0, 1, 3, 1024, 16384, 24576, 32768, 49152, 65536, 131072}
ReadAddrs == {0, 3, 1023, 1024, 16383, 16384, 24576, 32767, 32768, 49151, 49152, 65535}
WriteAddrs == {16384, 65532, 65533, 65534, 65535}
MapperBytes == {0, 3, 255}
InitSmsBus ==
    /\ Idle68
    /\ IdleZ
    /\ \E n \in RomLens : sms = NewSmsBus([len |-> n])
    /\ slast = NoSmsCall
NextSmsBus == SmsRead(ReadAddrs) \/ SmsWrite(WriteAddrs, MapperBytes)
SpecSmsBus == InitSmsBus /\ [][NextSmsBus]_vars

\* The VDP ports: the Z80 writing and reading the control, status and data
\* ports, no scanline ending
\* control bytes: as the second byte 0x3F, 0x7F and 0xFF select address
\* 0x3Fxx for a VRAM read, a VRAM write and a CRAM write, 0x81 writes
\* register 1; the byte written to the data port
PortBytes == {63, 127, 129, 255}
DataBytes == {90}
InitVdp ==
    /\ Idle68
    /\ IdleZ
    /\ sms = NewSmsBus([len |-> 16384])
    /\ slast = NoSmsCall
NextVdpPorts ==
    \/ SmsPortOut({ControlPort}, PortBytes)
    \/ SmsPortOut({DataPort}, DataBytes)
    \/ SmsPortIn({DataPort, ControlPort})
SpecVdpPorts == InitVdp /\ [][NextVdpPorts]_vars

\* The VDP through the frames: scanlines ending, the Z80 writing registers
\* 0 and 1 (0x30: line and frame interrupts enabled) and reading the status
LineBytes == {48, 128, 129}
NextVdpLines ==
    TickScanline \/ SmsPortOut({ControlPort}, LineBytes) \/ SmsPortIn({ControlPort})
SpecVdpLines == InitVdp /\ [][NextVdpLines]_vars

Init == Init68 /\ IdleZ /\ IdleM
Next == ResetWithBus \/ TriggerInterrupt \/ Step
Spec == Init /\ [][Next]_vars

InitZ80 == Idle68 /\ IdleM /\ InitZ
NextZ80 == ZStep \/ ZIrq \/ ZNmi
SpecZ80 == InitZ80 /\ [][NextZ80]_vars

\* the Z80 running a block instruction, no interrupt raised
\* the most iterations a block instruction is set up for
MaxBlock == 3

\* the repeating block instructions: LDIR, LDDR, CPIR, CPDR, INIR, INDR,
\* OTIR, OTDR (the second opcode byte)
RepeatOps == {176, 184, 177, 185, 178, 186, 179, 187}

\* 0000 LD A,a0; ADD A,a1; LD BC,bc; LD DE,de; LD HL,hl; ED op; HALT
\* 1000 11 22 33 44
ZBlockProgram(a0, a1, bc, de, hl, op) ==
    [a \in {x \in {1, 3, 5, 6, 8, 9, 11, 12} :
               (CASE x = 1 -> a0 [] x = 3 -> a1
                  [] x = 5 -> bc % 256 [] x = 6 -> bc \div 256
                  [] x = 8 -> de % 256 [] x = 9 -> de \div 256
                  [] x = 11 -> hl % 256 [] x = 12 -> hl \div 256) # 0}
        |-> CASE a = 1 -> a0 [] a = 3 -> a1
              [] a = 5 -> bc % 256 [] a = 6 -> bc \div 256
              [] a = 8 -> de % 256 [] a = 9 -> de \div 256
              [] a = 11 -> hl % 256 [] a = 12 -> hl \div 256]
    @@ (0 :> 62) @@ (2 :> 198) @@ (4 :> 1) @@ (7 :> 17) @@ (10 :> 33)
    @@ (13 :> 237) @@ (14 :> op) @@ (15 :> 118)
    @@ (4096 :> 17) @@ (4097 :> 34) @@ (4098 :> 51) @@ (4099 :> 68)

\* A and the flags at the block instruction: 0x11, 0x22 with C clear; 0x22,
\* 0x00 with C set; 0x00 with Z set and C clear.  BC counts 1..MaxBlock
\* iterations (in B for the I/O instructions); DE away from the source or one
\* above its start; HL at the first or the third byte of the source
ZBlockPrograms ==
    {ZBlockProgram(af[1], af[2],
                   IF op \in {178, 186, 179, 187} THEN (n * 256) + 127 ELSE n,
                   de, hl, op) :
        af \in {<<17, 0>>, <<34, 0>>, <<255, 35>>, <<255, 1>>, <<0, 0>>},
        n \in 1..MaxBlock, de \in {8192, 4097}, hl \in {4096, 4098},
        op \in RepeatOps}

InitZ80Run ==
    /\ Idle68
    /\ IdleM
    /\ z80 = NewZ80
    /\ zmem \in ZBlockPrograms
    /\ zlast = NoZCall
SpecZ80Run == InitZ80Run /\ [][ZStep]_vars

\* the Z80 copying a block with LDIR, the INT line raised between steps
\* 0000 LD SP,$8000; IM 1; EI; LD BC,bc; LD DE,de; LD HL,hl; LDIR
\* 0011 HALT; JR $0011        0038 EI; RETI        1000 11 22 33 44
ZLdirProgram(bc, de, hl) ==
    (0 :> 49) @@ (2 :> 128) @@ (3 :> 237) @@ (4 :> 86) @@ (5 :> 251)
    @@ (6 :> 1) @@ (7 :> bc) @@ (9 :> 17) @@ (10 :> de % 256) @@ (11 :> de \div 256)
    @@ (12 :> 33) @@ (14 :> hl \div 256) @@ (15 :> 237) @@ (16 :> 176)
    @@ (17 :> 118) @@ (18 :> 24) @@ (19 :> 253)
    @@ (56 :> 251) @@ (57 :> 237) @@ (58 :> 77)
    @@ (4096 :> 17) @@ (4097 :> 34) @@ (4098 :> 51) @@ (4099 :> 68)

\* BC counts 1..MaxBlock bytes from $1000; DE away from the source or one
\* above its start
ZLdirPrograms ==
    {ZLdirProgram(n, de, 4096) : n \in 1..MaxBlock, de \in {8193, 4097}}

InitZ80Ldir ==
    /\ Idle68
    /\ IdleM
    /\ z80 = NewZ80
    /\ zmem \in ZLdirPrograms
    /\ zlast = NoZCall
NextZ80Ldir == ZStep \/ ZIrq
SpecZ80Ldir == InitZ80Ldir /\ [][NextZ80Ldir]_vars

\* the Z80 adding or subtracting two packed-BCD bytes and adjusting
\* the valid packed-BCD bytes
BcdBytes == {(16 * t) + u : t \in 0..9, u \in 0..9}

\* 0000 LD A,x; ADD A,y (C6) or SUB y (D6); DAA; HALT
ZBcdProgram(x, y, op) ==
    [a \in {k \in {1, 3} : (IF k = 1 THEN x ELSE y) # 0} |-> IF a = 1 THEN x ELSE y]
    @@ (0 :> 62) @@ (2 :> op) @@ (4 :> 39) @@ (5 :> 118)

ZBcdPrograms == {ZBcdProgram(x, y, op) : x \in BcdBytes, y \in BcdBytes, op \in {198, 214}}

InitZ80Bcd ==
    /\ Idle68
    /\ IdleM
    /\ z80 = NewZ80
    /\ zmem \in ZBcdPrograms
    /\ zlast = NoZCall
SpecZ80Bcd == InitZ80Bcd /\ [][ZStep]_vars

---------------------------------------------------------------------------
(* Properties of the 68000 core, checked under Spec *)

\* the call just made was a step that returned
Stepped == last.call = "step" /\ ~panicked

\* the supervisor stack pointer exceptions of machine m push on
SupervisorSp(m) == IF m.c.sr.supervisor THEN m.c.a[7] ELSE m.c.ssp

\* the word / the long the bus of machine m holds at address a
WordAt(m, a) == read_word(m, a).v
LongAt(m, a) == read_long(m, a).v

\* C1: after every completed step A7 equals the SSP shadow when S = 1 and
\* the USP shadow when S = 0.
C1_A7EqualsShadow ==
    Stepped => cpu.a[7] = (IF cpu.sr.supervisor THEN cpu.ssp ELSE cpu.usp)

\* the step was called with a level above the mask pending
IntDue == /\ Stepped
          /\ IsSome(last.pre.c.pending_int)
          /\ Unwrap(last.pre.c.pending_int) > last.pre.c.sr.int_mask

\* C2: a level above the mask pending at step is serviced before any opcode
\* is fetched: PC (long) then the old SR (word) are pushed on the supervisor
\* stack, the mask becomes the level, T is cleared, S is set, PC is loaded
\* from vector 24 + level, and the opcode the step then fetches is the one
\* at that PC.
C2_InterruptEntry ==
    IntDue =>
        /\ last.lv = Unwrap(last.pre.c.pending_int)
        /\ last.mid.c.pending_int = None
        /\ last.mid.c.a[7] = SubL(SupervisorSp(last.pre), <<0, 6>>)
        /\ LongAt(last.mid, AddL(last.mid.c.a[7], <<0, 2>>)) = last.pre.c.pc
        /\ WordAt(last.mid, last.mid.c.a[7]) = to_u16(last.pre.c.sr)
        /\ last.mid.c.sr.int_mask = last.lv
        /\ ~last.mid.c.sr.trace
        /\ last.mid.c.sr.supervisor
        /\ last.mid.c.pc = LongAt(last.pre, L((24 + last.lv) * 4))
        /\ last.fetched
        /\ last.op = WordAt(last.mid, last.mid.c.pc)
        /\ last.frames[1] = [kind |-> "interrupt", vec |-> 24 + last.lv,
                             from |-> SupervisorSp(last.pre), to |-> last.mid.c.a[7]]

\* C2, the case: a level-6 interrupt taken in user mode with T set
C2_Witness ==
    /\ IntDue
    /\ last.lv = 6
    /\ ~last.pre.c.sr.supervisor
    /\ last.pre.c.sr.trace

\* C4: one call of step either executes one instruction or services one
\* interrupt, never both.
C4_InstructionOrInterrupt ==
    Stepped => ~(last.lv > 0 /\ last.fetched)

\* C5: level 7 is non-maskable: the step after trigger_interrupt(7) services
\* level 7 through vector 31, whatever the mask.
C5_Level7NonMaskable ==
    (Stepped /\ last.prev = "trigger_interrupt" /\ last.parg = 7) =>
        /\ last.lv = 7
        /\ last.mid.c.pc = LongAt(last.pre, L(31 * 4))

\* C6: of several levels above the mask requested before a step, the step
\* services the highest.
C6_HighestLevelServiced ==
    (Stepped /\ last.req_max > last.pre.c.sr.int_mask) => last.lv = last.req_max


\* the step executed TRAP #n (0x4E40..0x4E4F) starting in user mode
TrapFromUser ==
    /\ Stepped
    /\ last.fetched
    /\ last.op \div 16 = 1252
    /\ ~last.mid.c.sr.supervisor

\* C7: TRAP #n in user mode saves A7 into USP, loads A7 from SSP, sets S,
\* clears T, pushes the address of the next instruction (long) and the
\* pre-exception SR (word), so that A7 = SSP - 6 with SR at A7 and PC at
\* A7 + 2, and loads PC from vector 32 + n.
C7_TrapFromUserMode ==
    TrapFromUser =>
        /\ last.ex.c.usp = last.mid.c.a[7]
        /\ last.ex.c.a[7] = SubL(last.mid.c.ssp, <<0, 6>>)
        /\ last.ex.c.sr.supervisor
        /\ ~last.ex.c.sr.trace
        /\ WordAt(last.ex, last.ex.c.a[7]) = to_u16(last.mid.c.sr)
        /\ LongAt(last.ex, AddL(last.ex.c.a[7], <<0, 2>>)) = AddL(last.mid.c.pc, <<0, 2>>)
        /\ last.ex.c.pc = LongAt(last.mid, L((32 + (last.op % 16)) * 4))

\* C7, the case: TRAP #15 executed in user mode with T set
C7_Witness ==
    /\ TrapFromUser
    /\ last.op = 20047
    /\ last.mid.c.sr.trace
    /\ last.ex.c.pc = <<0, 444>>

\* the instruction of the step ended with a fault latched on the bus
FaultLatched ==
    /\ Stepped
    /\ last.fetched
    /\ IsSome(bus_error(last.ex.b))

\* the stack the frame of the step's bus error went to is RAM
FrameInRam ==
    /\ HighNibble(cpu.a[7]) \in 0..3
    /\ HighNibble(SupervisorSp(last.ex)) \in 0..3
    /\ ~(cpu.a[7][1] = 0 /\ cpu.a[7][2] < RomLen(bus) + 14)

\* C8: a fault latched at the end of an instruction is acknowledged once in
\* that step, which enters the bus-error exception through vector 2 with a
\* 14-byte frame on the supervisor stack (PC long, SR word, instruction
\* register word, access address long, function-code word); every other
\* exception and every interrupt pushes exactly 6 bytes.
C8_BusErrorFrame ==
    /\ FaultLatched =>
          /\ last.acks = 1
          /\ last.fault = Unwrap(bus_error(last.ex.b))
          /\ cpu.a[7] = SubL(SupervisorSp(last.ex), <<0, 14>>)
          /\ cpu.sr.supervisor
          /\ cpu.pc = LongAt(last.ex, <<0, 8>>)
          /\ last.frames[Len(last.frames)] =
                [kind |-> "bus_error", vec |-> 2, from |-> SupervisorSp(last.ex),
                 to |-> cpu.a[7]]
          /\ FrameInRam =>
                /\ bus.fault_addr = None
                /\ WordAt(Mach(cpu, bus), cpu.a[7]) = 5
                /\ LongAt(Mach(cpu, bus), AddL(cpu.a[7], <<0, 2>>)) = last.fault
                /\ WordAt(Mach(cpu, bus), AddL(cpu.a[7], <<0, 6>>)) = last.op
                /\ WordAt(Mach(cpu, bus), AddL(cpu.a[7], <<0, 8>>)) = to_u16(last.ex.c.sr)
                /\ LongAt(Mach(cpu, bus), AddL(cpu.a[7], <<0, 10>>)) = last.ex.c.pc
    /\ (Stepped /\ ~FaultLatched) => last.acks = 0
    /\ Stepped =>
          \A i \in 1..Len(last.frames) :
              /\ last.frames[i].kind = "bus_error" =>
                    /\ i = Len(last.frames)
                    /\ last.frames[i].to = SubL(last.frames[i].from, <<0, 14>>)
              /\ last.frames[i].kind # "bus_error" =>
                    last.frames[i].to = SubL(last.frames[i].from, <<0, 6>>)

\* C8, the case: a bus fault raised by an instruction running in user mode,
\* whose frame goes to the supervisor stack in RAM
C8_Witness ==
    /\ FaultLatched
    /\ FrameInRam
    /\ ~last.ex.c.sr.supervisor
    /\ last.acks = 1

\* C9: no opcode and no state makes step panic.
C9_StepNeverPanics == ~panicked

\* C10: after reset_with_bus SSP and A7 equal the long at address 0 and PC
\* the long at address 4, for every value of the two vectors; S is 1 and the
\* interrupt mask 7.
C10_ResetLoadsVectors ==
    last.call = "reset_with_bus" =>
        /\ cpu.ssp = LongAt(last.pre, <<0, 0>>)
        /\ cpu.a[7] = LongAt(last.pre, <<0, 0>>)
        /\ cpu.pc = LongAt(last.pre, <<0, 4>>)
        /\ cpu.sr.supervisor
        /\ cpu.sr.int_mask = 7

\* the step executed STOP (0x4E72) in supervisor mode
StopInSupervisor ==
    /\ Stepped
    /\ last.fetched
    /\ last.op = 20082
    /\ last.mid.c.sr.supervisor

\* C11: STOP in supervisor mode stops the CPU; every later step returns 4
\* cycles and changes neither the CPU nor the bus, until trigger_interrupt
\* is called with a level above the mask; a trigger_interrupt at or below
\* the mask leaves the CPU stopped; the first step after the wake-up
\* services the interrupt.
C11_StoppedUntilInterrupt ==
    /\ StopInSupervisor =>
          /\ cpu.stopped
          /\ cpu.pc = AddL(last.mid.c.pc, <<0, 4>>)
          /\ to_u16(cpu.sr) = to_u16(from_u16(WordAt(last.mid, AddL(last.mid.c.pc, <<0, 2>>))))
    /\ (Stepped /\ last.pre.c.stopped) =>
          /\ last.ret = 4
          /\ ~last.fetched
          /\ last.lv = 0
          /\ cpu = last.pre.c
          /\ bus = last.pre.b
    /\ (last.call = "trigger_interrupt" /\ last.was_stopped) =>
          IF last.arg > cpu.sr.int_mask
          THEN ~cpu.stopped /\ cpu.pending_int = Some(last.arg)
          ELSE cpu.stopped /\ cpu.pending_int = None
    /\ (Stepped /\ last.woke) =>
          /\ last.lv = Unwrap(last.pre.c.pending_int)
          /\ last.lv > last.pre.c.sr.int_mask
          /\ last.frames[1].kind = "interrupt"
          /\ last.mid.c.pc = LongAt(last.pre, L((24 + last.lv) * 4))
          /\ last.mid.c.sr.int_mask = last.lv

\* C11, the case: the step after a trigger_interrupt(6) that woke a CPU
\* stopped at mask 5
C11_Witness ==
    /\ Stepped
    /\ last.woke
    /\ last.lv = 6
    /\ last.pre.c.sr.int_mask = 5

\* MOVE to SR, ANDI/ORI/EORI to SR, STOP, RTE, MOVE USP
PrivilegedOp(op) ==
    \/ op \in {124, 636, 2684, 20082, 20083}
    \/ op \div 16 = 1254
    \/ /\ op \div 64 = 283
       /\ OpMode(op) # 1
       /\ ~(OpMode(op) = 7 /\ OpReg(op) > 4)

\* the step executed a privileged instruction in user mode
PrivilegedInUser ==
    /\ Stepped
    /\ last.fetched
    /\ ~last.mid.c.sr.supervisor
    /\ PrivilegedOp(last.op)

\* the RAM cells of the n bytes at address a
RamCells(a, n) == {RamIndex(AddL(a, <<0, i>>)) : i \in 0..(n - 1)}

\* buses b1 and b2 differ at most in the RAM cells S
SameBusExcept(b1, b2, S) ==
    /\ b1.rom = b2.rom
    /\ b1.rom_overlay = b2.rom_overlay
    /\ b1.fault_addr = b2.fault_addr
    /\ \A k \in ((DOMAIN b1.ram) \cup (DOMAIN b2.ram)) \ S :
          /\ k \in DOMAIN b1.ram
          /\ k \in DOMAIN b2.ram
          /\ b1.ram[k] = b2.ram[k]

\* C16: in user mode each privileged instruction raises vector 8 and does
\* nothing else: the frame holds the unmodified user SR and the address of
\* the word after the opcode, USP receives the user A7, stopped is not set,
\* no operand is fetched, no other register and no other memory changes.
C16_PrivilegeViolation ==
    PrivilegedInUser =>
        /\ last.ex.c.pc = LongAt(last.mid, <<0, 32>>)
        /\ last.ex.c.sr = [last.mid.c.sr EXCEPT !.supervisor = TRUE, !.trace = FALSE]
        /\ last.ex.c.usp = last.mid.c.a[7]
        /\ last.ex.c.a[7] = SubL(last.mid.c.ssp, <<0, 6>>)
        /\ WordAt(last.ex, last.ex.c.a[7]) = to_u16(last.mid.c.sr)
        /\ LongAt(last.ex, AddL(last.ex.c.a[7], <<0, 2>>)) = AddL(last.mid.c.pc, <<0, 2>>)
        /\ ~last.ex.c.stopped
        /\ ~last.ex.c.halted
        /\ last.ex.c.d = last.mid.c.d
        /\ \A i \in 0..6 : last.ex.c.a[i] = last.mid.c.a[i]
        /\ last.ex.c.ssp = last.mid.c.ssp
        /\ last.ex.c.pending_int = last.mid.c.pending_int
        /\ SameBusExcept(last.ex.b, last.mid.b, RamCells(last.ex.c.a[7], 6))
        /\ last.frames[Len(last.frames)] =
              [kind |-> "exception", vec |-> 8, from |-> last.mid.c.ssp,
               to |-> last.ex.c.a[7]]

\* C16, the case: STOP executed in user mode
C16_Witness ==
    /\ PrivilegedInUser
    /\ last.op = 20082
    /\ last.ex.c.pc = <<0, 288>>

\* the step fetched opcode word op and executed it
Executed ==
    /\ Stepped
    /\ last.fetched
    /\ last.mid.p = "run"

\* C17: ILLEGAL (0x4AFC), an opcode that encodes no implemented
\* instruction, raises vector 4: the frame holds the SR and the address of
\* the word after the opcode, and nothing else is executed.
C17_IllegalRaisesVector4 ==
    (Executed /\ last.op = 19196) =>
        /\ last.ex.c.pc = LongAt(last.mid, <<0, 16>>)
        /\ last.ex.c.a[7] = SubL(last.mid.c.a[7], <<0, 6>>)
        /\ LongAt(last.ex, AddL(last.ex.c.a[7], <<0, 2>>)) = AddL(last.mid.c.pc, <<0, 2>>)
        /\ last.frames # << >>
        /\ last.frames[Len(last.frames)].vec = 4

\* C18: JSR <ea> pushes the address of the next instruction and sets PC to
\* the effective address.
C18_JsrPushesReturn ==
    (Executed /\ last.op \div 64 = 314 /\ OpMode(last.op) = 2) =>
        /\ last.ex.c.pc = last.mid.c.a[OpReg(last.op)]
        /\ last.ex.c.a[7] = SubL(last.mid.c.a[7], <<0, 4>>)
        /\ LongAt(last.ex, last.ex.c.a[7]) = AddL(last.mid.c.pc, <<0, 2>>)

\* ADDQ / SUBQ with a destination in memory
QuickToMemory(op) ==
    /\ op \div 4096 = 5
    /\ (op \div 64) % 4 # 3
    /\ OpMode(op) \in 2..5

\* the destination of the instruction the step executed, evaluated once from
\* the state after the opcode fetch
OnceEa == EaAddr(fetch(last.mid).m, OpMode(last.op), OpReg(last.op),
                 from_bits((last.op \div 64) % 4))
QuickResult(old, op) ==
    Masked(IF Bit(op, 8)
           THEN SubL(old, <<0, IF OpDr(op) = 0 THEN 8 ELSE OpDr(op)>>)
           ELSE AddL(old, <<0, IF OpDr(op) = 0 THEN 8 ELSE OpDr(op)>>),
           from_bits((op \div 64) % 4))

\* C19: ADDQ / SUBQ on memory evaluates its destination once: the address
\* registers and PC end as one evaluation leaves them, and the cell that was
\* read holds the result.
C19_DestinationEvaluatedOnce ==
    (Executed /\ QuickToMemory(last.op)) =>
        /\ last.ex.c.a = OnceEa.m.c.a
        /\ last.ex.c.pc = OnceEa.m.c.pc
        /\ read_sz(last.ex, OnceEa.v, from_bits((last.op \div 64) % 4)).v =
              QuickResult(read_sz(last.mid, OnceEa.v, from_bits((last.op \div 64) % 4)).v,
                          last.op)

\* C20: EXT.W Dn sign-extends the low byte into the low word and keeps the
\* upper word, EXT.L Dn sign-extends the low word; both set N and Z from the
\* result, clear V and C, write no memory and consume no extension word.
C20_ExtSignExtends ==
    (Executed /\ last.op \div 8 \in {2320, 2328}) =>
        /\ last.ex.c.d =
              [last.mid.c.d EXCEPT ![OpReg(last.op)] =
                  IF last.op \div 8 = 2320
                  THEN <<@[1], SextB(@[2] % 256)[2]>>
                  ELSE SextW(@[2])]
        /\ last.ex.c.sr =
              set_logic(last.mid.c.sr, last.ex.c.d[OpReg(last.op)],
                        IF last.op \div 8 = 2320 THEN 2 ELSE 4)
        /\ last.ex.c.pc = AddL(last.mid.c.pc, <<0, 2>>)
        /\ last.ex.c.a = last.mid.c.a
        /\ last.ex.b = last.mid.b

---------------------------------------------------------------------------
(* Properties of the big-endian bus helpers, checked under SpecBus *)

\* the four bytes at a are RAM: plain writable storage of the Macintosh bus
PlainStorage(a) == \A i \in 0..3 : HighNibble(AddL(a, <<0, i>>)) \in 0..3

\* a long was written to plain storage and read back from the same address
ReadBack ==
    /\ last.call = "read_u32_be"
    /\ last.wrote
    /\ PlainStorage(last.addr)

\* C27: write_u32_be(a, v) followed by read_u32_be(a) returns v when the
\* bytes at a..a+3 are plain writable storage; the most significant byte is
\* stored at a, the least significant at a+3.
C27_BigEndianRoundTrip ==
    ReadBack =>
        /\ last.got = last.val
        /\ read(bus, last.addr).v = last.val[1] \div 256
        /\ read(bus, AddL(last.addr, <<0, 3>>)).v = last.val[2] % 256

\* C27, the case: $12345678 read back from the last two bytes of the RAM
\* and the two bytes that mirror its start
C27_Witness ==
    /\ ReadBack
    /\ last.addr = <<7, 65534>>
    /\ last.val = <<4660, 22136>>
    /\ last.got = <<4660, 22136>>

---------------------------------------------------------------------------
(* Properties of the 68000 core running a program, checked under SpecRun68 *)

\* OR.B Dn,<ea> with the destination in memory
OrByteToMemory(op) ==
    /\ op \div 4096 = 8
    /\ (op \div 64) % 8 = 4
    /\ OpMode(op) >= 2

\* C21: OR.B Dn,<ea> on memory writes Dn.b | byte back to the byte it read,
\* sets N and Z from the result, clears V and C, and leaves X and the data
\* registers as they were.
C21_OrByteToMemory ==
    (Executed /\ OrByteToMemory(last.op)) =>
        /\ read_byte(last.ex, OnceEa.v).v =
              BitOr(last.mid.c.d[OpDr(last.op)][2] % 256, read_byte(last.mid, OnceEa.v).v)
        /\ last.ex.c.sr = set_logic(last.mid.c.sr,
                                    <<0, read_byte(last.ex, OnceEa.v).v>>, 1)
        /\ last.ex.c.d = last.mid.c.d

\* the value of a packed-BCD byte, and the packed-BCD byte of n in 0..99
BcdVal(b) == (10 * (b \div 16)) + (b % 16)
ToBcd(n) == (16 * (n \div 10)) + (n % 10)

\* the step executed one ABCD (sub = FALSE) or SBCD (sub = TRUE) Dy,Dx of the chain
BcdStepped ==
    /\ bus.rom.img = 11
    /\ Executed
    /\ last.op \in {49920, 50946, 33536, 34562}

\* the decimal sum or difference the instruction has to form, carry-in included
BcdExact(c, op) ==
    IF op \div 4096 = 8
    THEN BcdVal(c.d[OpDr(op)][2] % 256) - BcdVal(c.d[OpReg(op)][2] % 256) - BcdCarryIn(c)
    ELSE BcdVal(c.d[OpDr(op)][2] % 256) + BcdVal(c.d[OpReg(op)][2] % 256) + BcdCarryIn(c)

\* one instruction of the chain: X is the decimal carry in, C and X the
\* carry (borrow) out, Z is cleared by a non-zero result and kept by a zero one
BcdStepOk ==
    BcdStepped =>
        /\ last.ex.c.d[OpDr(last.op)][2] % 256 =
              ToBcd((BcdExact(last.mid.c, last.op) + 100) % 100)
        /\ last.ex.c.sr.carry = (BcdExact(last.mid.c, last.op) \notin 0..99)
        /\ last.ex.c.sr.extend = last.ex.c.sr.carry
        /\ last.ex.c.sr.zero =
              (last.mid.c.sr.zero /\ last.ex.c.d[OpDr(last.op)][2] % 256 = 0)

\* the chain has ended: D3:D1 hold the four-digit result
BcdChainEnded == BcdStepped /\ OpDr(last.op) = 3

\* the four-digit sum or difference of the chain's operands (bus.rom.arg)
ChainExact(arg) ==
    IF arg[6] = 1
    THEN ((100 * BcdVal(arg[3])) + BcdVal(arg[1]))
            - ((100 * BcdVal(arg[4])) + BcdVal(arg[2])) - arg[5]
    ELSE ((100 * BcdVal(arg[3])) + BcdVal(arg[1]))
            + ((100 * BcdVal(arg[4])) + BcdVal(arg[2])) + arg[5]

\* C29: in a chain of ABCD (or SBCD) on packed-BCD bytes each instruction
\* takes X as decimal carry in, sets C and X to the decimal carry (borrow)
\* out, clears Z on a non-zero result byte and keeps it on a zero one; with
\* Z set before the chain, Z after it is 1 exactly when every result byte is
\* zero, and the bytes are the digits of the multi-digit result.
C29_BcdChain ==
    /\ BcdStepOk
    /\ BcdChainEnded =>
          /\ cpu.sr.zero = (cpu.d[1][2] % 256 = 0 /\ cpu.d[3][2] % 256 = 0)
          /\ (100 * BcdVal(cpu.d[3][2] % 256)) + BcdVal(cpu.d[1][2] % 256) =
                (ChainExact(bus.rom.arg) + 10000) % 10000
          /\ cpu.sr.carry = (ChainExact(bus.rom.arg) \notin 0..9999)
          /\ cpu.sr.extend = cpu.sr.carry

\* C29, the case: 0099 + 9901 has ended with both bytes zero, Z kept and the
\* carry out
C29_Witness ==
    /\ BcdChainEnded
    /\ bus.rom.arg = <<153, 1, 0, 153, 0, 0>>
    /\ cpu.sr.zero
    /\ cpu.sr.carry

\* the DBF loop is loaded: D0 = $1234kkkk, D1 counts the passes of the body
DbfLoaded == bus.rom.img = 10

\* the step executed the DBF D0 that closes the loop
DbfStepped == DbfLoaded /\ Executed /\ last.op = 20936

\* one DBF: the low word of D0 goes down by one, D1 and the upper word stay;
\* the branch back is taken unless the low word was 0; on the pass p = D1 the
\* low word was k - (p - 1)
DbfStepOk ==
    DbfStepped =>
        /\ last.mid.c.d[0] = <<4660, bus.rom.arg[1] - (last.mid.c.d[1][2] - 1)>>
        /\ last.ex.c.d[0] = <<4660, (last.mid.c.d[0][2] + 65535) % 65536>>
        /\ last.ex.c.d[1] = last.mid.c.d[1]
        /\ last.ex.c.pc = IF last.mid.c.d[0][2] # 0 THEN <<0, 456>> ELSE <<0, 462>>

\* the loop has fallen through: the body ran k + 1 times, so the branch back
\* was taken k times
DbfDone ==
    /\ DbfStepped
    /\ cpu.pc = <<0, 462>>
    /\ cpu.d[1] = <<0, bus.rom.arg[1] + 1>>
    /\ cpu.d[0] = <<4660, 65535>>

\* C28: a loop closed by DBF D0 whose counter holds k branches back exactly
\* k times and then falls through, with the low word of D0 = $FFFF and the
\* upper word unchanged.
C28_DbfLoopTerminates ==
    /\ []DbfStepOk
    /\ [](DbfStepped /\ cpu.pc = <<0, 462>> => DbfDone)
    /\ (DbfLoaded => <>DbfDone)

\* C28, the case: the loop with the largest counter has fallen through
C28_Witness == DbfDone /\ bus.rom.arg[1] = MaxCount /\ MaxCount >= 2

---------------------------------------------------------------------------
(* Properties of the Z80 core, checked under SpecZ80 *)

\* the step executed the instruction that follows an EI executed with
\* IFF1 = IFF2 = 0
AfterEi == zlast.call = "step" /\ zlast.after_ei /\ zlast.fetched

\* the step executed LD A,I (ED 57)
WasLdAI ==
    /\ zlast.op = 237
    /\ z80_read(zmem, (zlast.mid.pc + 1) % 65536) = 87

\* C3: after EI executed with interrupts disabled, IFF1 and IFF2 are still 0
\* while the following instruction executes (LD A,I copies IFF2 = 0 into
\* P/V) and become 1 only after it.
C3_EiDelaysOneInstruction ==
    AfterEi =>
        /\ ~zlast.mid.iff1
        /\ ~zlast.mid.iff2
        /\ WasLdAI => BitAnd(z80.f, FlagP) = 0

\* the 16-bit word the RAM holds at address a, low byte first
ZWordAt(mem, a) == z80_read(mem, a) + (256 * z80_read(mem, (a + 1) % 65536))

\* C12: HALT halts the CPU; a step of a halted CPU changes no register and
\* no memory; only nmi and an irq accepted with IFF1 = 1 end the halted
\* state; an irq presented while IFF1 = 0 returns 0 and changes nothing.
C12_HaltedUntilInterrupt ==
    /\ (zlast.call = "step" /\ zlast.fetched /\ zlast.op = 118) => z80.halted
    /\ (zlast.call = "step" /\ zlast.pre.halted) =>
          /\ ~zlast.fetched
          /\ z80 = zlast.pre
          /\ zlast.mem_same
    /\ (zlast.pre.halted /\ ~z80.halted) =>
          \/ zlast.call = "nmi"
          \/ zlast.call = "irq" /\ zlast.pre.iff1
    /\ (zlast.call = "irq" /\ ~zlast.pre.iff1) =>
          /\ zlast.ret = 0
          /\ z80 = zlast.pre
          /\ zlast.mem_same
    /\ (zlast.call = "irq" /\ zlast.pre.iff1) => ~z80.halted
    /\ zlast.call = "nmi" => ~z80.halted

\* C12, the case: an irq presented to a CPU halted with IFF1 = 0
C12_Witness ==
    /\ zlast.call = "irq"
    /\ zlast.pre.halted
    /\ ~zlast.pre.iff1
    /\ z80.halted

\* C13: an irq presented between the step that executes EI and the next
\* step is never accepted, whatever IFF1 was before the EI.
C13_NoIrqRightAfterEi ==
    (zlast.call = "irq" /\ zlast.pei) =>
        /\ zlast.ret = 0
        /\ z80 = zlast.pre
        /\ zlast.mem_same

\* C14: in mode 2 an accepted irq pushes PC and loads PC from the word at
\* (I << 8) | (data_bus & 0xFE).
C14_Mode2VectorIgnoresBit0 ==
    (zlast.call = "irq" /\ zlast.pre.iff1 /\ zlast.pre.im = 2) =>
        /\ z80.sp = (zlast.pre.sp + 65534) % 65536
        /\ ZWordAt(zmem, z80.sp) = zlast.pre.pc
        /\ z80.pc = ZWordAt(zmem, (zlast.pre.i * 256) + BitAnd(zlast.data, 254))

\* the step executed the RETN at 0x0066 right after the nmi call
RetnAfterNmi ==
    /\ zlast.call = "step"
    /\ zlast.prev = "nmi"
    /\ zlast.fetched
    /\ zlast.op = 237
    /\ z80_read(zmem, 103) = 69

\* C15: nmi is taken whatever IFF1 is: it clears halted, copies IFF1 into
\* IFF2, clears IFF1, pushes PC and sets PC to 0x0066; the RETN of a
\* handler that is just RETN restores PC to the interrupted address and
\* IFF1 to the value it had when the NMI was taken.
C15_NmiAndRetn ==
    /\ zlast.call = "nmi" =>
          /\ ~z80.halted
          /\ z80.iff2 = zlast.pre.iff1
          /\ ~z80.iff1
          /\ z80.sp = (zlast.pre.sp + 65534) % 65536
          /\ ZWordAt(zmem, z80.sp) = zlast.pre.pc
          /\ z80.pc = 102
    /\ RetnAfterNmi =>
          /\ z80.pc = zlast.ppre.pc
          /\ z80.sp = zlast.ppre.sp
          /\ z80.iff1 = zlast.ppre.iff1

\* the step executed the first instruction of an interrupt handler: the
\* call before it was nmi, or an irq made with IFF1 = 1
FirstHandlerStep ==
    /\ zlast.call = "step"
    /\ zlast.fetched
    /\ \/ zlast.prev = "nmi"
       \/ zlast.prev = "irq" /\ zlast.ppre.iff1

\* C30: once irq or nmi is accepted IFF1 is 0 while the handler's
\* instructions execute, until the handler executes EI or RETN, also when
\* the step before the interrupt executed EI: IFF1 is 0 at the opcode fetch
\* of the first handler instruction, and still 0 after it unless that
\* instruction is EI or RETN.
C30_HandlerRunsDisabled ==
    FirstHandlerStep =>
        /\ ~zlast.mid.iff1
        /\ (zlast.op # 251 /\ zlast.op # 237) => ~z80.iff1

\* the opcode and prefix bytes of the instruction the step executed: 2 when
\* the first byte is a CB, ED, DD or FD prefix, 1 otherwise
OpcodeBytes == IF zlast.op \in {203, 221, 237, 253} THEN 2 ELSE 1

\* C24: a step that executes an instruction adds the number of its opcode
\* and prefix bytes to the low 7 bits of R (modulo 128) and leaves bit 7,
\* whatever operand bytes the instruction has.
C24_RefreshCountsOpcodeBytes ==
    (zlast.call = "step" /\ zlast.fetched) =>
        /\ z80.r % 128 = (zlast.mid.r + OpcodeBytes) % 128
        /\ z80.r \div 128 = zlast.mid.r \div 128

---------------------------------------------------------------------------
(* Properties of the Z80 block instructions, checked under SpecZ80Run.       *)

\* the second opcode byte of the ED-prefixed instruction the step executed
\* (0 when it executed none)
BlockOp ==
    IF zlast.call = "step" /\ zlast.fetched /\ zlast.op = 237
    THEN z80_read(zmem, (zlast.mid.pc + 1) % 65536)
    ELSE 0

\* the termination condition of the repeating instruction the step executed:
\* BC = 0 after LDIR, LDDR; BC = 0 or A equal to the byte compared after CPIR,
\* CPDR; B = 0 after INIR, INDR, OTIR, OTDR
Terminated ==
    CASE BlockOp \in {176, 184} -> z80.b = 0 /\ z80.c = 0
      [] BlockOp \in {177, 185} ->
            \/ z80.b = 0 /\ z80.c = 0
            \/ zlast.mid.a = z80_read(zmem, (zlast.mid.h * 256) + zlast.mid.l)
      [] OTHER -> z80.b = 0

\* C22: one step of a repeating block instruction leaves PC at the
\* instruction itself while its termination condition does not hold, and at
\* the address after its two bytes once it does.
C22_BlockRepeatPc ==
    BlockOp \in RepeatOps =>
        z80.pc = IF Terminated THEN (zlast.mid.pc + 2) % 65536 ELSE zlast.mid.pc

\* C22, the case: CPIR or CPDR that repeated, then found the byte with BC
\* not yet 0
C22_Witness ==
    /\ BlockOp \in {177, 185}
    /\ zlast.reps >= 2
    /\ z80.b + z80.c # 0
    /\ z80.pc = zlast.mid.pc + 2

\* the RAM after n bytes are copied one at a time from src up to dst up,
\* lowest address first, i of them already done
RECURSIVE CopyAscending(_, _, _, _, _)
CopyAscending(mem, src, dst, i, n) ==
    IF i >= n THEN mem
    ELSE CopyAscending(z80_write(mem, (dst + i) % 65536,
                                 z80_read(mem, (src + i) % 65536)),
                       src, dst, i + 1, n)

\* BC, DE, HL of the registers c
RegBC(c) == (c.b * 256) + c.c
RegDE(c) == (c.d * 256) + c.e
RegHL(c) == (c.h * 256) + c.l

\* C23: LDIR entered with BC = n >= 1 ends at its n-th step and not before:
\* until then PC stays at the LDIR; after the n-th step PC is past it, BC is
\* 0, HL and DE are n higher, the RAM is what copying n bytes from HL to DE
\* in ascending order leaves, P/V, N and H are 0, Z and C are as at entry.
C23_LdirTerminates ==
    (BlockOp = 176 /\ RegBC(zlast.entry) >= 1) =>
        /\ zlast.reps <= RegBC(zlast.entry)
        /\ zlast.reps < RegBC(zlast.entry) => z80.pc = zlast.entry.pc
        /\ zlast.reps = RegBC(zlast.entry) =>
              /\ z80.pc = (zlast.entry.pc + 2) % 65536
              /\ RegBC(z80) = 0
              /\ RegHL(z80) = (RegHL(zlast.entry) + zlast.reps) % 65536
              /\ RegDE(z80) = (RegDE(zlast.entry) + zlast.reps) % 65536
              /\ zmem = CopyAscending(zlast.emem, RegHL(zlast.entry),
                                      RegDE(zlast.entry), 0, zlast.reps)
              /\ BitAnd(z80.f, FlagP + FlagN + FlagH) = 0
              /\ BitAnd(z80.f, FlagZ + FlagC) = BitAnd(zlast.entry.f, FlagZ + FlagC)

\* C23, the case: LDIR finished MaxBlock bytes copied onto the source
\* itself one address up, entered with H and C set
C23_Witness ==
    /\ BlockOp = 176
    /\ zlast.reps = MaxBlock
    /\ MaxBlock >= 2
    /\ RegBC(z80) = 0
    /\ RegDE(zlast.entry) = RegHL(zlast.entry) + 1
    /\ BitAnd(zlast.entry.f, FlagH + FlagC) = FlagH + FlagC

---------------------------------------------------------------------------
(* Properties of the Z80 decimal adjust, checked under SpecZ80Bcd.           *)

\* the step executed DAA (27)
DaaStep == zlast.call = "step" /\ zlast.fetched /\ zlast.op = 39

\* DAA started with A = 0x9A and N, H, C clear
DaaAt9A == DaaStep /\ zlast.mid.a = 154 /\ BitAnd(zlast.mid.f, FlagN + FlagH + FlagC) = 0

\* C25, as stated: DAA with A = 0x9A and N = H = C = 0 leaves A = 0x00,
\* Z = 1, C = 1, H = 0, N = 0, P/V = 1.
C25_DaaAt9A_HalfClear ==
    DaaAt9A =>
        /\ z80.a = 0
        /\ BitAnd(z80.f, FlagZ + FlagC + FlagH + FlagN + FlagP) = FlagZ + FlagC + FlagP

\* C25, amended: DAA with A = 0x9A and N = H = C = 0 leaves A = 0x00,
\* Z = 1, C = 1, H = 1 (the low digit was above 9), N = 0, P/V = 1.
C25_DaaAt9A ==
    DaaAt9A =>
        /\ z80.a = 0
        /\ BitAnd(z80.f, FlagZ + FlagC + FlagH + FlagN + FlagP)
              = FlagZ + FlagC + FlagH + FlagP

\* C25, the case: 0x99 + 0x01 = 0x9A adjusted
C25_Witness == DaaAt9A /\ z80_read(zmem, 1) = 153 /\ z80_read(zmem, 3) = 1 /\ z80.a = 0

\* the operands and the operation of the program: LD A,x; ADD A,y or SUB y
BcdX == BcdVal(z80_read(zmem, 1))
BcdY == BcdVal(z80_read(zmem, 3))

\* C26: for packed-BCD bytes x and y, ADD then DAA leaves the packed BCD of
\* (x + y) mod 100 with C = 1 exactly when x + y > 99; SUB then DAA leaves
\* the packed BCD of (x - y) mod 100 with C = 1 exactly when x < y.
C26_BcdAddSub ==
    DaaStep =>
        IF z80_read(zmem, 2) = 198
        THEN /\ z80.a = ToBcd((BcdX + BcdY) % 100)
             /\ (BitAnd(z80.f, FlagC) # 0) = (BcdX + BcdY > 99)
        ELSE /\ z80.a = ToBcd((BcdX + 100 - BcdY) % 100)
             /\ (BitAnd(z80.f, FlagC) # 0) = (BcdX < BcdY)

\* C26, the case: 0x00 - 0x01 adjusted to 0x99 with C
C26_Witness ==
    /\ DaaStep
    /\ z80_read(zmem, 2) = 214
    /\ BcdX = 0
    /\ BcdY = 1
    /\ z80.a = 153
    /\ BitAnd(z80.f, FlagC) # 0

---------------------------------------------------------------------------
(* Further properties of the 68000 core, checked under Spec.                 *)

\* the call being made is trigger_interrupt with a level at or below the mask
MaskedRequest == last'.call = "trigger_interrupt" /\ last'.arg <= cpu.sr.int_mask

\* C31: trigger_interrupt with a level at or below the mask changes nothing
\* in the CPU (nothing is latched, a level latched before is kept, a stopped
\* CPU stays stopped); and since a level is latched only by a
\* trigger_interrupt above the mask and a step services only the level that
\* is latched, lowering the mask later does not bring the request back.
C31_MaskedRequestDropped ==
    [][/\ MaskedRequest => (cpu' = cpu /\ bus' = bus)
       /\ (IsSome(cpu'.pending_int) /\ cpu'.pending_int # cpu.pending_int) =>
             /\ last'.call = "trigger_interrupt"
             /\ last'.arg > cpu.sr.int_mask
             /\ cpu'.pending_int = Some(last'.arg)
       /\ (last'.call = "step" /\ last'.lv > 0) => cpu.pending_int = Some(last'.lv)]_vars

\* C31, the case: a request at or below the mask, then a step that lowers
\* the mask below the requested level and services nothing
C31_Witness ==
    /\ last.call = "step"
    /\ last.prev = "trigger_interrupt"
    /\ last.parg <= last.pre.c.sr.int_mask
    /\ last.pre.c.pending_int = None
    /\ last.fetched
    /\ cpu.sr.int_mask < last.parg
    /\ cpu.pending_int = None
    /\ last.lv = 0

\* the step executed RTE in supervisor mode with A7 where the latest entry
\* from user mode left it after pushing PC and SR (the handler has left the
\* supervisor stack balanced)
ReturnToUser ==
    /\ Stepped
    /\ last.fetched
    /\ last.op = 20083
    /\ last.mid.c.sr.supervisor
    /\ last.acks = 0
    /\ last.uentry.open
    /\ AddL(last.mid.c.a[7], <<0, 6>>) = last.uentry.ssp

\* C32: an exception or interrupt taken from user mode, followed by RTE in a
\* handler that leaves the supervisor stack balanced, restores the state
\* from before the exception: PC is the saved return address, SR the
\* pre-exception SR (S = 0, T and the mask as they were), A7 the user stack
\* pointer, and the supervisor stack pointer the next exception will use is
\* the one this exception used.
C32_RteRestoresUserState ==
    ReturnToUser =>
        /\ last.ex.c.pc = last.uentry.ret
        /\ to_u16(last.ex.c.sr) = last.uentry.sr
        /\ ~last.ex.c.sr.supervisor
        /\ last.ex.c.a[7] = last.uentry.a7
        /\ SupervisorSp(last.ex) = last.uentry.ssp
        /\ cpu = last.ex.c

\* C32, the case: a level-6 interrupt taken in user mode with T set, returned
\* from by RTE
C32_Witness ==
    /\ ReturnToUser
    /\ last.uentry.sr \div 32768 = 1
    /\ (last.uentry.sr \div 256) % 8 < 6
    /\ last.mid.c.sr.int_mask = 6
    /\ last.ex.c.sr.trace

---------------------------------------------------------------------------
(* Properties of an interrupted LDIR, checked under SpecZ80Ldir.             *)

\* the bytes of the stack the interrupts of a run can write
StackBytes == {a \in 0..65535 : 32768 - (2 * (MaxIrq + 1)) <= a /\ a < 32768}

\* irq was accepted right after an iteration of LDIR that did not end it
IrqInsideLdir ==
    /\ zlast.call = "irq"
    /\ zlast.pre.iff1
    /\ zlast.blk.on
    /\ zlast.blk.fresh

\* the step ended an LDIR that interrupts were accepted in
InterruptedLdirDone ==
    /\ zlast.call = "step"
    /\ zlast.blk.done
    /\ zlast.blk.irqs > 0

\* C33: LDIR can be interrupted between iterations: an irq accepted after a
\* step that left LDIR unfinished pushes the address of the LDIR itself, and
\* once the handler has returned with RETI the copy completes with HL, DE,
\* BC = 0 and the RAM (the stack apart) as an uninterrupted LDIR leaves them.
C33_LdirInterruptible ==
    /\ IrqInsideLdir =>
          /\ z80.sp = (zlast.pre.sp + 65534) % 65536
          /\ ZWordAt(zmem, z80.sp) = zlast.blk.entry.pc
          /\ z80_read(zmem, zlast.blk.entry.pc) = 237
          /\ z80_read(zmem, (zlast.blk.entry.pc + 1) % 65536) = 176
    /\ InterruptedLdirDone =>
          /\ RegBC(z80) = 0
          /\ RegHL(z80) = (RegHL(zlast.blk.entry) + RegBC(zlast.blk.entry)) % 65536
          /\ RegDE(z80) = (RegDE(zlast.blk.entry) + RegBC(zlast.blk.entry)) % 65536
          /\ z80.pc = (zlast.blk.entry.pc + 2) % 65536
          /\ z80.sp = zlast.blk.entry.sp
          /\ \A a \in (DOMAIN zmem \cup DOMAIN zlast.blk.emem) \ StackBytes :
                 z80_read(zmem, a) =
                 z80_read(CopyAscending(zlast.blk.emem, RegHL(zlast.blk.entry),
                                        RegDE(zlast.blk.entry), 0,
                                        RegBC(zlast.blk.entry)), a)

\* C33, the case: an LDIR of MaxBlock bytes onto the source one address up,
\* interrupted after each of its first two iterations, has ended
C33_Witness ==
    /\ InterruptedLdirDone
    /\ zlast.blk.irqs = 2
    /\ RegBC(zlast.blk.entry) = MaxBlock
    /\ RegDE(zlast.blk.entry) = RegHL(zlast.blk.entry) + 1

---------------------------------------------------------------------------
(* Properties of the Master System bus, checked under SpecSmsBus.            *)

\* the access just made was a read in the ROM window 0x0000-0xBFFF of a bus
\* built around a ROM that is not empty
RomWindowRead == slast.call = "read" /\ slast.addr <= 49151 /\ sms.rom.len > 0

\* C34: whatever the length of a non-empty ROM, a power of two or not, and
\* whatever was written to the mapper registers 0xFFFC-0xFFFF, a read in
\* 0x0000-0xBFFF indexes inside the ROM and returns a byte without panicking.
C34_RomReadInsideRom ==
    RomWindowRead => (~slast.panicked /\ 0 <= slast.idx /\ slast.idx < sms.rom.len)

---------------------------------------------------------------------------
(* Properties of the VDP ports, checked under SpecVdpPorts.                  *)

\* the access just made: a write to the control port, a read of the status
\* port, a write to or a read of the data port
ControlWrite == slast.call = "port_out" /\ slast.addr = ControlPort
StatusRead   == slast.call = "port_in" /\ slast.addr = ControlPort
DataAccess   == slast.call \in {"port_in", "port_out"} /\ slast.addr = DataPort

\* C35: the control port is a two-state latch: each control write moves it
\* from first-byte to second-byte state or back; a data-port read, a
\* data-port write and a status read each leave it in first-byte state; the
\* VDP address is within 0..0x3FFF after every data access.
C35_ControlLatch ==
    /\ ControlWrite => sms.vdp.address_latch = ~slast.pre.address_latch
    /\ (DataAccess \/ StatusRead) => ~sms.vdp.address_latch
    /\ DataAccess => sms.vdp.address \in 0..16383

\* C35, the case: a data write made between the two control bytes, at
\* address 0x3FFF, which wraps to 0
C35_Witness ==
    /\ DataAccess
    /\ slast.call = "port_out"
    /\ slast.pre.address_latch
    /\ slast.pre.address = 16383
    /\ sms.vdp.address = 0

---------------------------------------------------------------------------
(* Properties of the VDP interrupts, checked under SpecVdpLines.             *)

\* the VBlank flag of the status; frame interrupts enabled (register 1 bit 5)
VBlankFlag(v) == BitAnd(v.status, STATUS_VBLANK) # 0
FrameEnabled(v) == BitAnd(v.regs[1], 32) # 0

====
